---------------------------- MODULE Spec2Model ----------------------------
(***************************************************************************)
(* Verification model of the motion-spec extractor: the property-graph     *)
(* walker, the keyframe / animated-property extractor, the easing          *)
(* converter and the top-level extraction script.                          *)
(*                                                                         *)
(* Each component has its own specification over the shared variables:     *)
(*   SpecWalk   - utils/property-walker.jsx  (walkPropertyGroup)           *)
(*   SpecKf     - extractors/keyframe.jsx    (extractAnimatedProperty)     *)
(*   SpecEasing - extractors/easing.jsx      (convertEasingWithValues)     *)
(*   SpecMain   - main.jsx                   (the extraction script)       *)
(* A specification leaves the variables of the other components at their   *)
(* idle values.                                                            *)
(***************************************************************************)
EXTENDS Integers, Sequences, FiniteSets, TLC

VARIABLES
    \* ---- walkPropertyGroup ----
    tree,        \* the host property tree handed to the walk
    callback,    \* the visit callback: which leaves it throws on
    stack,       \* the recursion stack of walkPropertyGroup, innermost frame last
    visits,      \* the callback invocations made so far, in order
    \* ---- extractAnimatedProperty / extractKeyframes ----
    property,    \* the host property handed to extractAnimatedProperty
    descriptor,  \* what extractAnimatedProperty produced
    \* ---- convertEasingWithValues / convertEasingToCubicBezier ----
    segment,     \* the inputs of one easing conversion
    bezier,      \* the results of the conversion
    \* ---- main ----
    host,        \* the host application: the active item and its layers
    options,     \* the options read from the dialog
    pc,          \* position of the script
    li,          \* main's loop variable i
    layers,      \* main's layers array
    document,    \* the assembled document
    log,         \* the calls and alerts the script has made, in order
    \* ---- extractLayer ----
    shapeExtractFrameRate,  \* the module-level _shapeExtractFrameRate
    call,        \* the arguments of the latest extractLayer call
    layerData,   \* what that call produced
    calls,       \* the number of extractLayer calls made
    \* ---- validateMotionSpec ----
    data,  \* the value handed to validateMotionSpec
    validation, \* the ValidationResult returned
    \* ---- getPropertyValue / normalizeKeyValue ----
    reading,  \* the host property handed to the value normalizer
    normalized, \* the function called and what it returned
    \* ---- jsonStringify ----
    graph,  \* the object graph handed to jsonStringify
    frames,  \* the active serialize calls, innermost last
    seen,  \* jsonStringify's seen list
    json, \* the string jsonStringify returned
    \* ---- bezierYForX ----
    newton, \* bezierYForX: its arguments, its locals t and i, and what it returned
    \* ---- computeAnimationSummary ----
    given,  \* the layerData handed to computeAnimationSummary
    reduced, \* what computeAnimationSummary returned, or that it threw
    \* ---- detectLayerType ----
    aeLayer,  \* the host layer handed to detectLayerType
    detected, \* what the call did
    \* ---- extractShapeData ----
    vectors,  \* the host tree below ADBE Root Vectors Group
    shapeStack,  \* the open calls of extractShapeGroup
    shapeData, \* the outcome of extractShapeData and the items pushed
    \* ---- figma-plugin: code.ts and the UI ----
    panel,  \* the UI: parsedData and the Generate button
    inbox,  \* messages posted by the UI, not yet handled by the sandbox
    outbox,  \* messages posted by the sandbox, not yet handled by the UI
    sandbox,  \* the plugin sandbox: open, and the handlers awaiting generateSpecDocument
    requests  \* the generate messages sent so far, with what was posted for each

vars == <<tree, callback, stack, visits, property, descriptor, segment, bezier,
          host, options, pc, li, layers, document, log,
          shapeExtractFrameRate, call, layerData, calls,
          data, validation,
          reading, normalized,
          graph, frames, seen, json,
          newton,
          given, reduced,
          aeLayer, detected,
          vectors, shapeStack, shapeData,
          panel, inbox, outbox, sandbox, requests>>

walkVars == <<tree, callback, stack, visits>>
kfVars == <<property, descriptor>>
easingVars == <<segment, bezier>>
mainVars == <<host, options, pc, li, layers, document, log>>
layerVars == <<call, layerData, calls>>
validateVars == <<data, validation>>
valueVars == <<reading, normalized>>
jsonVars == <<graph, frames, seen, json>>
newtonVars == <<newton>>
reduceVars == <<given, reduced>>
detectVars == <<aeLayer, detected>>
shapeVars == <<vectors, shapeStack, shapeData>>
pluginVars == <<panel, inbox, outbox, sandbox, requests>>

\* The idle values of each component's variables.
Idle == "idle"

WalkIdle == tree = Idle /\ callback = Idle /\ stack = <<>> /\ visits = <<>>
KfIdle == property = Idle /\ descriptor = Idle
EasingIdle == segment = Idle /\ bezier = Idle
MainIdle ==
    /\ host = Idle /\ options = Idle /\ pc = Idle /\ li = 0
    /\ layers = <<>> /\ document = Idle /\ log = <<>>
LayerIdle == call = Idle /\ layerData = Idle /\ calls = 0
ValidateIdle == data = Idle /\ validation = Idle
ValueIdle == reading = Idle /\ normalized = Idle
JsonIdle == graph = Idle /\ frames = <<>> /\ seen = <<>> /\ json = Idle
NewtonIdle == newton = Idle
ReduceIdle == given = Idle /\ reduced = Idle
DetectIdle == aeLayer = Idle /\ detected = Idle
ShapeIdle == vectors = Idle /\ shapeStack = Idle /\ shapeData = Idle
PluginIdle == panel = Idle /\ inbox = Idle /\ outbox = Idle /\ sandbox = Idle /\ requests = Idle
\* The script is loaded: var _shapeExtractFrameRate = 30 (layer.jsx line 833)
Loaded == shapeExtractFrameRate = 30

\* What each component leaves alone, and where the others rest meanwhile.
exceptWalk == <<kfVars, easingVars, mainVars, layerVars, shapeExtractFrameRate, validateVars, valueVars, jsonVars, newtonVars, reduceVars, detectVars, shapeVars, pluginVars>>
exceptKf == <<walkVars, easingVars, mainVars, layerVars, shapeExtractFrameRate, validateVars, valueVars, jsonVars, newtonVars, reduceVars, detectVars, shapeVars, pluginVars>>
exceptEasing == <<walkVars, kfVars, mainVars, layerVars, shapeExtractFrameRate, validateVars, valueVars, jsonVars, newtonVars, reduceVars, detectVars, shapeVars, pluginVars>>
exceptMain == <<walkVars, kfVars, easingVars, layerVars, validateVars, valueVars, jsonVars, newtonVars, reduceVars, detectVars, shapeVars, pluginVars>>
exceptLayer == <<walkVars, kfVars, easingVars, mainVars, validateVars, valueVars, jsonVars, newtonVars, reduceVars, detectVars, shapeVars, pluginVars>>
exceptPlugin == <<walkVars, kfVars, easingVars, mainVars, validateVars, valueVars, jsonVars, newtonVars, reduceVars, detectVars, shapeVars, layerVars, shapeExtractFrameRate>>
exceptShape == <<walkVars, kfVars, easingVars, mainVars, validateVars, valueVars, jsonVars, newtonVars, reduceVars, detectVars, layerVars, shapeExtractFrameRate, pluginVars>>
exceptDetect == <<walkVars, kfVars, easingVars, mainVars, validateVars, valueVars, jsonVars, newtonVars, reduceVars, layerVars, shapeExtractFrameRate, shapeVars, pluginVars>>
exceptReduce == <<walkVars, kfVars, easingVars, mainVars, validateVars, valueVars, jsonVars, newtonVars, layerVars, shapeExtractFrameRate, detectVars, shapeVars, pluginVars>>
exceptNewton == <<walkVars, kfVars, easingVars, mainVars, validateVars, valueVars, jsonVars, layerVars, shapeExtractFrameRate, reduceVars, detectVars, shapeVars, pluginVars>>
exceptJson == <<walkVars, kfVars, easingVars, mainVars, validateVars, valueVars, layerVars, shapeExtractFrameRate, newtonVars, reduceVars, detectVars, shapeVars, pluginVars>>
exceptValue == <<walkVars, kfVars, easingVars, mainVars, validateVars, layerVars, shapeExtractFrameRate, jsonVars, newtonVars, reduceVars, detectVars, shapeVars, pluginVars>>
exceptValidate == <<walkVars, kfVars, easingVars, mainVars, layerVars, shapeExtractFrameRate, valueVars, jsonVars, newtonVars, reduceVars, detectVars, shapeVars, pluginVars>>

IdleExceptWalk == KfIdle /\ EasingIdle /\ MainIdle /\ LayerIdle /\ Loaded /\ ValidateIdle /\ ValueIdle /\ JsonIdle /\ NewtonIdle /\ ReduceIdle /\ DetectIdle /\ ShapeIdle /\ PluginIdle
IdleExceptKf == WalkIdle /\ EasingIdle /\ MainIdle /\ LayerIdle /\ Loaded /\ ValidateIdle /\ ValueIdle /\ JsonIdle /\ NewtonIdle /\ ReduceIdle /\ DetectIdle /\ ShapeIdle /\ PluginIdle
IdleExceptEasing == WalkIdle /\ KfIdle /\ MainIdle /\ LayerIdle /\ Loaded /\ ValidateIdle /\ ValueIdle /\ JsonIdle /\ NewtonIdle /\ ReduceIdle /\ DetectIdle /\ ShapeIdle /\ PluginIdle
IdleExceptMain == WalkIdle /\ KfIdle /\ EasingIdle /\ LayerIdle /\ ValidateIdle /\ ValueIdle /\ JsonIdle /\ NewtonIdle /\ ReduceIdle /\ DetectIdle /\ ShapeIdle /\ PluginIdle
IdleExceptLayer == WalkIdle /\ KfIdle /\ EasingIdle /\ MainIdle /\ ValidateIdle /\ ValueIdle /\ JsonIdle /\ NewtonIdle /\ ReduceIdle /\ DetectIdle /\ ShapeIdle /\ PluginIdle
IdleExceptPlugin == WalkIdle /\ KfIdle /\ EasingIdle /\ MainIdle /\ ValidateIdle /\ ValueIdle /\ JsonIdle /\ NewtonIdle /\ ReduceIdle /\ DetectIdle /\ ShapeIdle /\ LayerIdle /\ Loaded
IdleExceptShape == WalkIdle /\ KfIdle /\ EasingIdle /\ MainIdle /\ ValidateIdle /\ ValueIdle /\ JsonIdle /\ NewtonIdle /\ ReduceIdle /\ DetectIdle /\ LayerIdle /\ Loaded /\ PluginIdle
IdleExceptDetect == WalkIdle /\ KfIdle /\ EasingIdle /\ MainIdle /\ ValidateIdle /\ ValueIdle /\ JsonIdle /\ NewtonIdle /\ ReduceIdle /\ LayerIdle /\ Loaded /\ ShapeIdle /\ PluginIdle
IdleExceptReduce == WalkIdle /\ KfIdle /\ EasingIdle /\ MainIdle /\ ValidateIdle /\ ValueIdle /\ JsonIdle /\ NewtonIdle /\ LayerIdle /\ Loaded /\ DetectIdle /\ ShapeIdle /\ PluginIdle
IdleExceptNewton == WalkIdle /\ KfIdle /\ EasingIdle /\ MainIdle /\ ValidateIdle /\ ValueIdle /\ JsonIdle /\ LayerIdle /\ Loaded /\ ReduceIdle /\ DetectIdle /\ ShapeIdle /\ PluginIdle
IdleExceptJson == WalkIdle /\ KfIdle /\ EasingIdle /\ MainIdle /\ ValidateIdle /\ ValueIdle /\ LayerIdle /\ Loaded /\ NewtonIdle /\ ReduceIdle /\ DetectIdle /\ ShapeIdle /\ PluginIdle
IdleExceptValue == WalkIdle /\ KfIdle /\ EasingIdle /\ MainIdle /\ ValidateIdle /\ LayerIdle /\ Loaded /\ JsonIdle /\ NewtonIdle /\ ReduceIdle /\ DetectIdle /\ ShapeIdle /\ PluginIdle
IdleExceptValidate == WalkIdle /\ KfIdle /\ EasingIdle /\ MainIdle /\ LayerIdle /\ Loaded /\ ValueIdle /\ JsonIdle /\ NewtonIdle /\ ReduceIdle /\ DetectIdle /\ ShapeIdle /\ PluginIdle

Max(a, b) == IF a >= b THEN a ELSE b
Min(a, b) == IF a <= b THEN a ELSE b
Abs(a) == IF a < 0 THEN -a ELSE a

(***************************************************************************)
(*                  utils/property-walker.jsx                              *)
(***************************************************************************)

PROPERTY_WALK_MAX_DEPTH == 20

\* Outcomes of a host read that does not deliver a node or a count.
Throws == -1       \* the accessor throws
Undefined == -2    \* the attribute does not exist (typeof !== "number")
NullSlot == 0      \* propertyGroup.property(i) returns null / undefined

\* PropertyType enumerants, as integers.
PT_PROPERTY == 1
PT_GROUP == 2


\* Bounds of the host trees handed to the walk.
MaxSlots == 2      \* child slots of the root of a "fan" tree
MaxChain == 23     \* longest chain of nested groups
MaxStack == 30     \* cap of the modelled recursion stack (never reached)

(* The host trees.  Node 1 is the root.                                    *)
(*   fan:     the root is a group of Len(slots) child slots; slot j holds  *)
(*            node 10*j (or fails to be fetched), and a group in slot j    *)
(*            holds the single leaf 10*j+1.                                *)
(*   selfRef: the root is a group of two slots, the leaf 2 and the root    *)
(*            itself.                                                      *)
(*   chain:   groups 1..len, group k holding group k+1 as its only child   *)
(*            and group len holding the leaf len+1.                        *)
(*   throwingChain: a chain every node of which throws on the read of its  *)
(*            propertyType, so that the walk descends through the catch    *)
(*            block of lines 68-79.                                        *)
SlotKinds ==
    { "fetchThrows",      \* property(i) throws
      "null",             \* property(i) returns nothing
      "leaf",             \* a Property
      "leafTypeThrows",   \* a Property whose propertyType read throws
      "inaccessible",     \* propertyType and numProperties both throw
      "emptyGroup",       \* a PropertyGroup with numProperties = 0
      "group",            \* a PropertyGroup holding one leaf
      "groupTypeThrows",  \* a PropertyGroup whose propertyType read throws
      "groupNumThrows" }  \* a PropertyGroup whose numProperties read throws

SlotSeqs(n) == UNION { [1..k -> SlotKinds] : k \in 1..n }

HostTrees ==
    { [shape |-> "fan", slots |-> s, len |-> 0] : s \in SlotSeqs(MaxSlots) }
    \cup { [shape |-> "selfRef", slots |-> <<>>, len |-> 0] }
    \cup { [shape |-> c, slots |-> <<>>, len |-> l] :
               c \in {"chain", "throwingChain"}, l \in 1..MaxChain }

Root == 1

\* The kind of the node n of a fan tree (n = 10*j or 10*j+1).
FanKind(t, n) ==
    IF n % 10 = 1 THEN "leaf" ELSE t.slots[n \div 10]

\* n.numProperties
NumProperties(t, n) ==
    CASE t.shape = "selfRef" -> IF n = Root THEN 2 ELSE Undefined
      [] t.shape \in {"chain", "throwingChain"} ->
           IF n <= t.len THEN 1 ELSE Undefined
      [] OTHER ->
           IF n = Root THEN Len(t.slots)
           ELSE CASE FanKind(t, n) \in {"leaf", "leafTypeThrows"} -> Undefined
                  [] FanKind(t, n) \in {"inaccessible", "groupNumThrows"} -> Throws
                  [] FanKind(t, n) = "emptyGroup" -> 0
                  [] OTHER -> 1

\* n.propertyType
PropertyType(t, n) ==
    CASE t.shape = "selfRef" -> IF n = Root THEN PT_GROUP ELSE PT_PROPERTY
      [] t.shape = "chain" -> IF n <= t.len THEN PT_GROUP ELSE PT_PROPERTY
      [] t.shape = "throwingChain" -> Throws
      [] OTHER ->
           IF n = Root THEN PT_GROUP
           ELSE CASE FanKind(t, n) = "leaf" -> PT_PROPERTY
                  [] FanKind(t, n) \in {"leafTypeThrows", "inaccessible",
                                        "groupTypeThrows"} -> Throws
                  [] OTHER -> PT_GROUP

\* n.property(i), for 1 <= i <= n.numProperties
PropertyAt(t, n, i) ==
    CASE t.shape = "selfRef" -> IF i = 1 THEN 2 ELSE Root
      [] t.shape \in {"chain", "throwingChain"} -> n + 1
      [] OTHER ->
           IF n = Root
           THEN CASE t.slots[i] = "fetchThrows" -> Throws
                  [] t.slots[i] = "null" -> NullSlot
                  [] OTHER -> 10 * i
           ELSE n + 1

\* The visit callbacks: the set of leaves on which the callback throws.
Callbacks == {"returns", "throws", "throwsOnEven"}

CallbackThrows(cb, prop, depth) ==
    CASE cb = "returns" -> FALSE
      [] cb = "throws" -> TRUE
      [] OTHER -> prop % 2 = 0

Frame(node, depth) == [node |-> node, i |-> 0, depth |-> depth]

Top == stack[Len(stack)]
Pop == SubSeq(stack, 1, Len(stack) - 1)
\* The caller's frame moves on to its next slot.
Advance(s) == [s EXCEPT ![Len(s)].i = @ + 1]

Visit(prop, depth) ==
    [node |-> prop, depth |-> depth, threw |-> CallbackThrows(callback, prop, depth)]

\* A depth guard that never trips (the guard of line 27 left out).
DepthExceededNever(depth) == FALSE

\* A depth guard that trips one level late.
DepthExceededLate(depth) == depth > PROPERTY_WALK_MAX_DEPTH + 1

\* The recursion guard of line 27.
DepthExceeded(depth) == depth > PROPERTY_WALK_MAX_DEPTH

\* walkPropertyGroup lines 26-45: the guards of a call.  TRUE when the call
\* returns before its loop.

ReturnsEarly(t, node, depth) ==
    \/ DepthExceeded(depth)
    \/ node = NullSlot
    \/ NumProperties(t, node) = Throws
    \/ NumProperties(t, node) = Undefined
    \/ NumProperties(t, node) <= 0

InitWalk ==
    /\ tree \in HostTrees
    /\ callback \in Callbacks
    /\ stack = <<Frame(Root, 0)>>
    /\ visits = <<>>
    /\ IdleExceptWalk

\* A call of walkPropertyGroup evaluates its guards (lines 22-45).
WalkEnter ==
    /\ stack # <<>>
    /\ Top.i = 0
    /\ IF ReturnsEarly(tree, Top.node, Top.depth)
       THEN stack' = Pop
       ELSE stack' = Advance(stack)
    /\ UNCHANGED <<tree, callback, visits, exceptWalk>>

\* The catch block of lines 68-79, entered for prop at the caller's depth with
\* the visits made so far.
CatchPath(prop, depth, sofar) ==
    IF NumProperties(tree, prop) = Throws
    THEN \* line 76: completely inaccessible, skip
         /\ visits' = sofar
         /\ stack' = Advance(stack)
    ELSE IF NumProperties(tree, prop) # Undefined /\ NumProperties(tree, prop) > 0
    THEN \* line 72: recurse
         /\ Len(stack) < MaxStack
         /\ visits' = sofar
         /\ stack' = Append(Advance(stack), Frame(prop, depth + 1))
    ELSE \* line 74: callback; a throw is swallowed by the inner catch
         /\ visits' = Append(sofar, Visit(prop, depth))
         /\ stack' = Advance(stack)

\* A failed fetch that leaves the walk: every open call is unwound.
FetchFailurePropagates(s) == <<>>

\* The continue of lines 53 and 57: the loop goes on to the next slot.
Continue(s) == Advance(s)

\* One iteration of the loop of lines 48-80, for slot Top.i.
WalkSlotSkipped ==
    /\ stack # <<>>
    /\ Top.i >= 1 /\ Top.i <= NumProperties(tree, Top.node)
    /\ PropertyAt(tree, Top.node, Top.i) \in {Throws, NullSlot}
    /\ stack' = Continue(stack)
    /\ UNCHANGED <<tree, callback, visits, exceptWalk>>

WalkLeaf ==
    /\ stack # <<>>
    /\ Top.i >= 1 /\ Top.i <= NumProperties(tree, Top.node)
    /\ LET prop == PropertyAt(tree, Top.node, Top.i) IN
        /\ prop \notin {Throws, NullSlot}
        /\ PropertyType(tree, prop) = PT_PROPERTY
        /\ IF CallbackThrows(callback, prop, Top.depth)
           THEN \* the throw of callback (line 63) lands in the catch of line 68
                CatchPath(prop, Top.depth, Append(visits, Visit(prop, Top.depth)))
           ELSE /\ visits' = Append(visits, Visit(prop, Top.depth))
                /\ stack' = Advance(stack)
    /\ UNCHANGED <<tree, callback, exceptWalk>>

WalkGroup ==
    /\ stack # <<>>
    /\ Top.i >= 1 /\ Top.i <= NumProperties(tree, Top.node)
    /\ LET prop == PropertyAt(tree, Top.node, Top.i) IN
        /\ prop \notin {Throws, NullSlot}
        /\ PropertyType(tree, prop) \notin {PT_PROPERTY, Throws}
        /\ Len(stack) < MaxStack
        /\ stack' = Append(Advance(stack), Frame(prop, Top.depth + 1))
    /\ UNCHANGED <<tree, callback, visits, exceptWalk>>

WalkTypeThrows ==
    /\ stack # <<>>
    /\ Top.i >= 1 /\ Top.i <= NumProperties(tree, Top.node)
    /\ LET prop == PropertyAt(tree, Top.node, Top.i) IN
        /\ prop \notin {Throws, NullSlot}
        /\ PropertyType(tree, prop) = Throws
        /\ CatchPath(prop, Top.depth, visits)
    /\ UNCHANGED <<tree, callback, exceptWalk>>

\* The loop of a call is over: the call returns to its caller.
WalkReturn ==
    /\ stack # <<>>
    /\ Top.i >= 1 /\ Top.i > NumProperties(tree, Top.node)
    /\ stack' = Pop
    /\ UNCHANGED <<tree, callback, visits, exceptWalk>>

WalkDone == stack = <<>>

NextWalk ==
    \/ WalkEnter
    \/ WalkSlotSkipped
    \/ WalkLeaf
    \/ WalkGroup
    \/ WalkTypeThrows
    \/ WalkReturn

\* The walk is a synchronous call: it runs until it returns.
SpecWalk == InitWalk /\ [][NextWalk]_vars /\ WF_vars(NextWalk)

(***************************************************************************)
(*                  extractors/easing.jsx                                  *)
(*                                                                         *)
(* Numbers are fixed-point integers:                                       *)
(*   values and value deltas   in units of 0.00001                         *)
(*   times and durations       in units of 0.00001 s                       *)
(*   speeds                    in value units per second (so that          *)
(*                             speed * duration / delta needs no scaling)  *)
(*   influences                in units of 0.001 percent                   *)
(*   Bezier coordinates        in units of 0.0001 (the 4 places kept by    *)
(*                             Math.round(c * 10000) / 10000)              *)
(* The arithmetic is exact where the code's is IEEE double arithmetic; the *)
(* two agree except within one rounding step of a .5 rounding boundary.    *)
(***************************************************************************)

\* 0.0001, the guard of convertEasingWithValues, in value / time units.
EPSILON == 10
\* 100 percent, in influence units: influence / 100 as a fraction of ONE.
ONE == 100000
\* 10000, the scale of Math.round(c * 10000) / 10000.
SCALE == 10000

\* Math.floor in place of Math.round.
Floor4(num, den) == num \div ((ONE \div SCALE) * den)

\* Math.round(c * 10000) for the coordinate c = (num / den) / ONE, den > 0:
\* floor(c * 10000 + 0.5), in units of 1 / SCALE.
Round4(num, den) ==
    (2 * num + (ONE \div SCALE) * den) \div (2 * (ONE \div SCALE) * den)

\* The clamp left out: x passes through unchanged.
Clamp01Off(x) == x

\* Math.max(0, Math.min(1, x)), x a fraction of ONE.
Clamp01(x) == Max(0, Min(ONE, x))

\* Portable / host values: a kind and, for numbers and arrays, the
\* components.
Number(n) == [kind |-> "number", dims |-> <<n>>]
Array(d) == [kind |-> "array", dims |-> d]
Other(k) == [kind |-> k, dims |-> <<>>]
NullValue == Other("null")

Ease(speed, influence) == [speed |-> speed, influence |-> influence]

\* The results of a conversion.  path records which return statement
\* produced it.
Bezier(x1, y1, x2, y2, path) ==
    [x1 |-> x1, y1 |-> y1, x2 |-> x2, y2 |-> y2, path |-> path]
IdentityBezier == Bezier(0, 0, SCALE, SCALE, "degenerate")
NoBezier == Bezier(0, 0, 0, 0, "null")

\* findBestDimension of the dimension-aware converter: the index (0-based)
\* of the dimension of largest absolute change, and that change.
RECURSIVE BestFrom(_, _, _, _, _)
BestFrom(startValue, endValue, i, bestDim, bestChange) ==
    IF i > Min(Len(startValue.dims), Len(endValue.dims))
    THEN [dimIndex |-> bestDim, valueChange |-> bestChange]
    ELSE LET change == endValue.dims[i] - startValue.dims[i] IN
         IF Abs(change) > Abs(bestChange)
         THEN BestFrom(startValue, endValue, i + 1, i - 1, change)
         ELSE BestFrom(startValue, endValue, i + 1, bestDim, bestChange)

findBestDimension(startValue, endValue) ==
    IF startValue.kind = "number" /\ endValue.kind = "number"
    THEN [dimIndex |-> 0, valueChange |-> endValue.dims[1] - startValue.dims[1]]
    ELSE IF startValue.kind = "array" /\ endValue.kind = "array"
    THEN BestFrom(startValue, endValue, 1, 0, 0)
    ELSE [dimIndex |-> 0, valueChange |-> 0]

\* The value change of the scalar converter: the first dimension.
FirstDimension(startValue, endValue) ==
    IF startValue.kind = "number" /\ endValue.kind = "number"
    THEN [dimIndex |-> 0, valueChange |-> endValue.dims[1] - startValue.dims[1]]
    ELSE IF startValue.kind = "array" /\ endValue.kind = "array"
    THEN [dimIndex |-> 0, valueChange |-> endValue.dims[1] - startValue.dims[1]]
    ELSE [dimIndex |-> 0, valueChange |-> 0]

\* The guard without its test of the duration.
NegligibleIgnoringDuration(valueChange, duration) == Abs(valueChange) < EPSILON

\* The guard of both converters.
Negligible(valueChange, duration) ==
    Abs(valueChange) < EPSILON \/ duration < EPSILON

\* The computed path shared by both converters, from the chosen handles:
\* x from the influences, y from speed / linearSpeed, x clamped, all rounded.
HermiteToBezier(out, in, valueChange, duration) ==
    LET x1 == out.influence
        x2 == ONE - in.influence
        \* y1 = x1 * |outSpeed| / linearSpeed and
        \* y2 = 1 - inInfluence * |inSpeed| / linearSpeed, with
        \* linearSpeed = |valueChange| / duration, as numerators over absChange
        y1num == x1 * Abs(out.speed) * duration
        y2num == ONE * Abs(valueChange) - in.influence * Abs(in.speed) * duration
        absChange == Abs(valueChange)
    IN  Bezier(Round4(Clamp01(x1), 1),
               Round4(y1num, absChange),
               Round4(Clamp01(x2), 1),
               Round4(y2num, absChange),
               "computed")

\* convertEasingWithValues of extractors/easing.jsx (the file main.jsx
\* includes): the value change is that of the first dimension and the handles
\* are those of dimension 0.
convertEasingWithValues(outEase, inEaseNext, duration, startValue, endValue) ==
    LET valueChange == FirstDimension(startValue, endValue).valueChange IN
    IF Negligible(valueChange, duration)
    THEN IdentityBezier
    ELSE HermiteToBezier(outEase[1], inEaseNext[1], valueChange, duration)

\* convertEasingWithValues of the dimension-aware variant: the dominant
\* dimension's change and handles (clamped to the ease arrays' lengths).
convertEasingWithValuesBest(outEase, inEaseNext, duration, startValue, endValue) ==
    LET best == findBestDimension(startValue, endValue)
        easeDim == Min(best.dimIndex, Len(outEase) - 1)
        easeInDim == Min(best.dimIndex, Len(inEaseNext) - 1)
    IN  IF Negligible(best.valueChange, duration)
        THEN IdentityBezier
        ELSE HermiteToBezier(outEase[easeDim + 1], inEaseNext[easeInDim + 1],
                             best.valueChange, duration)

\* convertEasingToCubicBezier: no value change known; zero speed gives a
\* flat tangent, any other speed y = x (the unclamped x).
convertEasingToCubicBezier(outEase, inEaseNext, duration) ==
    LET x1 == outEase[1].influence
        x2 == ONE - inEaseNext[1].influence
        y1 == IF outEase[1].speed = 0 THEN 0 ELSE x1
        y2 == IF inEaseNext[1].speed = 0 THEN ONE ELSE x2
    IN  Bezier(Round4(Clamp01(x1), 1), Round4(y1, 1),
               Round4(Clamp01(x2), 1), Round4(y2, 1), "approx")

\* ---- the conversions checked: inputs drawn from small sets ----

Influences == {-20000, 0, 33333, 100000, 150000}
Speeds == {0, 5, -2}
Durations == {-5, 0, 9, 10, 500}

\* Handles of dimension 0, and of a second dimension when there is one.
EaseElems == { Ease(sp, inf) : sp \in Speeds, inf \in Influences }
SecondElems == { Ease(0, 33333), Ease(5, 150000), Ease(-2, 0) }

\* <<startValue, endValue>> of a segment.
ValuePairs ==
    { <<Number(100), Number(100 + d)>> : d \in {0, 9, -9, 10, -10, 2000} }
    \cup { <<Array(<<100, 50>>), Array(<<100 + d[1], 50 + d[2]>>)>> :
             d \in { <<0, 0>>, <<0, 9>>, <<0, 10>>, <<0, -2000>>,
                     <<10, 2000>>, <<2000, 10>>, <<-2000, 500>>, <<9, 9>> } }
    \cup { <<NullValue, Number(100)>>, <<Other("string"), Other("string")>> }

Segments ==
    { [outEase |-> o, inEaseNext |-> i, duration |-> d,
       startValue |-> v[1], endValue |-> v[2]] :
        o \in { <<e>> : e \in EaseElems },
        i \in { <<e>> : e \in EaseElems },
        d \in Durations, v \in ValuePairs }
    \cup
    { [outEase |-> <<o, s>>, inEaseNext |-> <<i, s>>, duration |-> d,
       startValue |-> v[1], endValue |-> v[2]] :
        o \in { Ease(0, 33333), Ease(5, 0) },
        i \in { Ease(0, 33333), Ease(-2, 150000) },
        s \in SecondElems, d \in Durations, v \in ValuePairs }

Converted(fn, result) == [fn |-> fn, result |-> result]

InitEasing ==
    /\ segment \in Segments
    /\ bezier = Converted("none", NoBezier)
    /\ IdleExceptEasing

ConvertWithValues ==
    /\ bezier.fn = "none"
    /\ bezier' = Converted("convertEasingWithValues",
                    convertEasingWithValues(segment.outEase, segment.inEaseNext,
                        segment.duration, segment.startValue, segment.endValue))
    /\ UNCHANGED <<segment, exceptEasing>>

ConvertWithValuesBest ==
    /\ bezier.fn = "none"
    /\ bezier' = Converted("convertEasingWithValuesBest",
                    convertEasingWithValuesBest(segment.outEase, segment.inEaseNext,
                        segment.duration, segment.startValue, segment.endValue))
    /\ UNCHANGED <<segment, exceptEasing>>

ConvertApprox ==
    /\ bezier.fn = "none"
    /\ bezier' = Converted("convertEasingToCubicBezier",
                    convertEasingToCubicBezier(segment.outEase, segment.inEaseNext,
                        segment.duration))
    /\ UNCHANGED <<segment, exceptEasing>>

NextEasing ==
    \/ ConvertWithValues
    \/ ConvertWithValuesBest
    \/ ConvertApprox

SpecEasing == InitEasing /\ [][NextEasing]_vars

(***************************************************************************)
(*                  extractors/keyframe.jsx                                *)
(***************************************************************************)

MaxKeys == 2       \* most keyframes of a host property

\* The per-keyframe host reads that can throw, one name per try block of
\* extractKeyframes: keyTime; keyValue; key{In,Out}InterpolationType;
\* key{Out,In}TemporalEase; key{In,Out}SpatialTangent; the five flag reads.
Facets == {"time", "value", "interp", "ease", "spatial", "flags"}
FacetSets ==
    {{}} \cup { {f} : f \in Facets } \cup {Facets \ {"time", "value"}, Facets}

\* What the keyframes of a host property hold: the values of the odd and of
\* the even keyframes and the temporal-ease handles of every keyframe.
Motions ==
    { [id |-> "opacity", a |-> Number(100), b |-> Number(2100),
       ease |-> <<Ease(0, 33333)>>],
      [id |-> "bounceY", a |-> Array(<<100, 50>>), b |-> Array(<<100, 2050>>),
       ease |-> <<Ease(0, 0), Ease(0, 33333)>>],
      [id |-> "position", a |-> Array(<<100, 50>>), b |-> Array(<<2100, 60>>),
       ease |-> <<Ease(1, 150000)>>],
      [id |-> "path", a |-> Other("object"), b |-> Other("object"),
       ease |-> <<Ease(0, 33333)>>] }

\* The seconds between two keyframes of a host property, in time units.
KeySpacing == 5000

FrameRates == {24, 30}

HostProperties ==
    { [valueType |-> vt, isTimeVarying |-> tv, numKeys |-> Len(f), fails |-> f,
       motion |-> m, valueOk |-> vo, expression |-> ex] :
        vt \in {"NO_VALUE", "match", "throws"},
        tv \in {"true", "false", "throws"},
        f \in UNION { [1..k -> FacetSets] : k \in 0..MaxKeys },
        m \in Motions, vo \in BOOLEAN, ex \in BOOLEAN }
    \cup
    \* the numKeys read throws
    { [valueType |-> "match", isTimeVarying |-> tv, numKeys |-> Throws,
       fails |-> <<>>, motion |-> m, valueOk |-> TRUE, expression |-> FALSE] :
        tv \in {"true", "false", "throws"}, m \in Motions }

\* property.keyTime(i), property.keyValue(i), property.key*TemporalEase(i)
KeyTime(p, i) == (i - 1) * KeySpacing
KeyValue(p, i) == IF i % 2 = 1 THEN p.motion.a ELSE p.motion.b
KeyEase(p, i) == p.motion.ease

\* An exception that leaves the function.
Raised == Other("raised")

\* String(val) of the fallback: throws for a host object that cannot be
\* converted.
StringOf(val) == IF val.kind = "unstringable" THEN Raised ELSE Other("string")

\* The fallback without its try block.
TryStringNoCatch(val) == StringOf(val)

\* try { return String(val); } catch (e) { return null; }
TryString(val) == IF StringOf(val) = Raised THEN NullValue ELSE StringOf(val)

\* for (i = 0; i < val.length; i++) out.push(val[i]);  (i is 1-based here)
RECURSIVE CopyFrom(_, _, _)
CopyFrom(val, i, out) ==
    IF i > Len(val) THEN out ELSE CopyFrom(val, i + 1, Append(out, val[i]))

\* normalizeKeyValue: numbers, strings and booleans pass, arrays are copied,
\* anything else becomes String(val), or null when that throws.
normalizeKeyValue(val) ==
    IF val.kind = "number" THEN val
    ELSE IF val.kind = "array" THEN Array(CopyFrom(val.dims, 1, <<>>))
    ELSE IF val.kind \in {"string", "boolean"} THEN val
    ELSE TryString(val)

\* property.value
PropertyValue(p) == IF ~p.valueOk THEN Raised ELSE p.motion.a

\* getPropertyValue: null when the read throws, else as normalizeKeyValue.
getPropertyValue(p) ==
    IF PropertyValue(p) = Raised THEN NullValue
    ELSE normalizeKeyValue(PropertyValue(p))

\* Math.round(time * frameRate), time in time units.
FrameOf(time, frameRate) == (2 * time * frameRate + ONE) \div (2 * ONE)

\* The cubicBezier of keyframe i's temporalEasing (lines 536-566).
SegmentBezier(p, i, value) ==
    IF i >= p.numKeys
    THEN NoBezier
    ELSE IF "ease" \in p.fails[i + 1] \/ "time" \in p.fails[i + 1]
    THEN \* both the conversion and its fallback throw: null
         NoBezier
    ELSE IF "value" \in p.fails[i + 1]
    THEN \* keyValue(i + 1) throws: the simplified conversion
         convertEasingToCubicBezier(KeyEase(p, i), KeyEase(p, i + 1),
                                    KeyTime(p, i + 1) - KeyTime(p, i))
    ELSE convertEasingWithValues(KeyEase(p, i), KeyEase(p, i + 1),
                                 KeyTime(p, i + 1) - KeyTime(p, i),
                                 value, normalizeKeyValue(KeyValue(p, i + 1)))

\* The index recorded in a keyframe counted from 0.
IndexOff(i) == i - 1

\* The index recorded in keyframe i (line 478).
IndexOf(i) == i

\* The descriptor of keyframe i, its time being readable (lines 475-609).
Keyframe(p, frameRate, i) ==
    LET value == IF "value" \in p.fails[i]
                 THEN NullValue
                 ELSE normalizeKeyValue(KeyValue(p, i))
    IN  [index |-> IndexOf(i),
         time |-> KeyTime(p, i),
         frame |-> FrameOf(KeyTime(p, i), frameRate),
         value |-> value,
         interpolationType |-> IF "interp" \in p.fails[i] THEN "null" ELSE "BEZIER",
         temporalEasing |-> IF "ease" \in p.fails[i] THEN "null" ELSE "present",
         cubicBezier |-> IF "ease" \in p.fails[i]
                         THEN NoBezier
                         ELSE SegmentBezier(p, i, value),
         spatialEasing |-> "spatial" \notin p.fails[i],
         flags |-> "flags" \notin p.fails[i]]

\* A loop that drops a keyframe when any of its reads fails.
SkippedOnAnyFailure(p, i) == p.fails[i] # {}

\* The continue of line 485: the keyTime read of keyframe i throws.
Skipped(p, i) == "time" \in p.fails[i]

\* The loop of extractKeyframes from keyframe i on: a keyframe whose time
\* cannot be read is skipped.
RECURSIVE KeyframesFrom(_, _, _)
KeyframesFrom(p, frameRate, i) ==
    IF i > p.numKeys THEN <<>>
    ELSE IF Skipped(p, i)
    THEN KeyframesFrom(p, frameRate, i + 1)
    ELSE <<Keyframe(p, frameRate, i)>> \o KeyframesFrom(p, frameRate, i + 1)

\* extractKeyframes: threw when the numKeys read (line 466) throws.
extractKeyframes(p, frameRate) ==
    IF p.numKeys = Throws
    THEN [threw |-> TRUE, keyframes |-> <<>>]
    ELSE [threw |-> FALSE, keyframes |-> KeyframesFrom(p, frameRate, 1)]

\* The dimensions of a value.
Dimensions(val) == IF val.kind = "array" THEN Len(val.dims) ELSE 1

Descriptor(status, animated, dims, hasKfs, kfs, hasStatic, static, hasExpr) ==
    [status |-> status, isAnimated |-> animated, dimensions |-> dims,
     hasKeyframes |-> hasKfs, keyframes |-> kfs,
     hasStaticValue |-> hasStatic, staticValue |-> static,
     hasExpression |-> hasExpr]

NoDescriptor(status) ==
    Descriptor(status, FALSE, 0, FALSE, <<>>, FALSE, NullValue, FALSE)

\* extractAnimatedProperty.  status is "null" for the null return of line
\* 647, "threw" when extractKeyframes throws through line 677, and
\* "returned" for the descriptor of line 691.
extractAnimatedProperty(p, frameRate) ==
    LET isAnimated == p.isTimeVarying = "true"
        dimensions == IF p.valueType = "match" THEN Dimensions(p.motion.a) ELSE 1
        kfs == extractKeyframes(p, frameRate)
    IN  IF p.valueType = "NO_VALUE" THEN NoDescriptor("null")
        ELSE IF isAnimated /\ kfs.threw THEN NoDescriptor("threw")
        ELSE IF isAnimated
        THEN Descriptor("returned", TRUE, dimensions, TRUE, kfs.keyframes,
                        FALSE, NullValue, p.expression)
        ELSE Descriptor("returned", FALSE, dimensions, FALSE, <<>>,
                        TRUE, getPropertyValue(p), p.expression)

InitKf ==
    /\ property \in [host : HostProperties, frameRate : FrameRates]
    /\ descriptor = NoDescriptor("none")
    /\ IdleExceptKf

ExtractAnimatedProperty ==
    /\ descriptor.status = "none"
    /\ descriptor' = extractAnimatedProperty(property.host, property.frameRate)
    /\ UNCHANGED <<property, exceptKf>>

NextKf == ExtractAnimatedProperty

SpecKf == InitKf /\ [][NextKf]_vars

(***************************************************************************)
(*          main.jsx, extractors/layer.jsx, masks.jsx, effects.jsx         *)
(***************************************************************************)

MaxLayers == 2     \* most layers of the active composition
MaxCalls == 2      \* most successive calls of extractLayer
MaxNesting == 2    \* most compositions nested below a precomp layer
MaxSummaryKeys == 3  \* most keyframes of a transform property

\* The one host read of a layer that throws, if any.
LayerFaults ==
    { "none",
      "fetch",        \* comp.layer(i)                        main.jsx line 87
      "name",         \* layer.name                           main.jsx line 89
      "enabled",      \* layer.enabled                        main.jsx line 94
      "index",        \* layer.index                          layer.jsx line 233
      "transform",    \* layer.transform                      layer.jsx line 718
      "numKeys",      \* numKeys of transform.position        layer.jsx line 466
      "maskParade",   \* layer.property("ADBE Mask Parade")   masks.jsx line 18
      "maskCount",    \* masksGroup.numProperties             masks.jsx line 27
      "mask",         \* a read of the layer's mask           masks.jsx line 29
      "effectCount" } \* effectsGroup.numProperties           effects.jsx line 27

\* The type tokens of detectLayerType.
LayerTypes ==
    {"shape", "text", "image", "video", "precomp", "null", "solid", "camera",
     "light", "adjustment"}

\* How the host reads behind a layer's type-specific data behave: all
\* succeed; one inside a try block throws; one outside every try block
\* throws (prop.name of layer.jsx line 992, the "ADBE Text Document" read of
\* text.jsx line 113).
PayloadFaults == {"none", "guarded", "unguarded"}

\* The properties of a layer's transform group, and the order in which
\* computeAnimationSummary scans them (lines 194-215); orientation is
\* extracted but not scanned.
ScanOrder ==
    <<"anchorPoint", "position", "scale", "rotation", "opacity",
      "rotationX", "rotationY", "rotationZ",
      "positionX", "positionY", "positionZ">>
TransformNames == { ScanOrder[k] : k \in 1..Len(ScanOrder) } \cup {"orientation"}

\* The properties extractTransform reads of a layer (lines 723-823).
TransformSlots(separated, threeD) ==
    {"anchorPoint", "scale", "opacity"}
    \cup (IF separated THEN {"positionX", "positionY", "positionZ"}
          ELSE {"position"})
    \cup (IF threeD THEN {"rotationX", "rotationY", "rotationZ", "orientation"}
          ELSE {"rotation"})

MotionOf(id) == CHOOSE m \in Motions : m.id = id

HostProperty(tv, fails, motion) ==
    [valueType |-> "match", isTimeVarying |-> tv, numKeys |-> Len(fails),
     fails |-> fails, motion |-> motion, valueOk |-> TRUE, expression |-> FALSE]

\* A property without keyframes, and one whose numKeys read throws.
StaticProperty == HostProperty("false", <<>>, MotionOf("opacity"))
ThrowingProperty == [HostProperty("true", <<>>, MotionOf("opacity"))
                        EXCEPT !.numKeys = Throws]

\* The host properties a transform group is populated with: k readable
\* keyframes, or MaxSummaryKeys keyframes the first of which fails one read.
TransformProfiles ==
    {StaticProperty, ThrowingProperty}
    \cup { HostProperty("true", [i \in 1..k |-> {}], MotionOf(m)) :
             k \in 0..MaxSummaryKeys, m \in {"opacity", "position"} }
    \cup { HostProperty("true",
                        [i \in 1..MaxSummaryKeys |-> IF i = 1 THEN {f} ELSE {}],
                        MotionOf("opacity")) : f \in {"time", "ease"} }

StaticTransform == [n \in TransformNames |-> StaticProperty]

\* A host layer.  nesting is the number of composition levels below the
\* layer: 0 unless the layer is a precomp, 1 for a precomp whose source
\* holds no precomp layer, 2 when that source holds a precomp layer, ...
HostLayer(enabled, fault, type, separated, threeD, props, payloadFault, nesting) ==
    [index |-> 1, enabled |-> enabled, fault |-> fault, type |-> type,
     separated |-> separated, threeD |-> threeD, props |-> props,
     shapeProperty |-> HostProperty("true", [i \in 1..2 |-> {}], MotionOf("opacity")),
     payloadFault |-> payloadFault, nesting |-> nesting]

\* The layers of the composition main extracts.
HostLayers ==
    { HostLayer(e, f, "null", FALSE, FALSE, StaticTransform, "none", 0) :
        e \in BOOLEAN, f \in LayerFaults }

Hosts ==
    { [activeItem |-> a, frameRate |-> 30, layers |-> <<>>] :
        a \in {"footage", "none"} }
    \cup { [activeItem |-> "comp", frameRate |-> 30, layers |-> l] :
             l \in UNION { [1..n -> HostLayers] : n \in 0..MaxLayers } }

\* comp.layer(i)
LayerAt(h, i) == [h.layers[i] EXCEPT !.index = i]

\* A check that takes every active item for a composition.
IsCompItemAlways(item) == TRUE

\* comp instanceof CompItem (main.jsx line 19)
IsCompItem(item) == item = "comp"

\* A skip test that forgets the includeHidden option.
SkipsLayerIgnoringOption(includeHidden, enabled) == ~enabled

\* main.jsx line 94: !options.includeHidden && !layer.enabled
SkipsLayer(includeHidden, enabled) == ~includeHidden /\ ~enabled

\* The host property behind a transform slot: the numKeys fault of the layer
\* sits on its position.
TransformProperty(layer, n) ==
    IF layer.fault = "numKeys" /\ n = "position"
    THEN ThrowingProperty
    ELSE layer.props[n]

\* extractTransform: empty when layer.transform throws; a property whose
\* extraction throws is left out by the try around it.
extractTransform(layer, frameRate) ==
    IF layer.fault = "transform" THEN << >>
    ELSE LET slots == TransformSlots(layer.separated, layer.threeD)
             kept == { n \in slots :
                         extractAnimatedProperty(TransformProperty(layer, n),
                                                 frameRate).status # "threw" }
         IN  [n \in kept |->
                 extractAnimatedProperty(TransformProperty(layer, n), frameRate)]

\* A checkProp test satisfied by a single keyframe.
QualifiesWithOne(transform, n) ==
    /\ n \in DOMAIN transform
    /\ transform[n].status = "returned"
    /\ transform[n].isAnimated
    /\ transform[n].hasKeyframes
    /\ Len(transform[n].keyframes) >= 1

\* The test of checkProp (line 170) on the property in slot n:
\* prop && prop.isAnimated && prop.keyframes && prop.keyframes.length >= 2
Qualifies(transform, n) ==
    /\ n \in DOMAIN transform
    /\ transform[n].status = "returned"
    /\ transform[n].isAnimated
    /\ transform[n].hasKeyframes
    /\ Len(transform[n].keyframes) >= 2

\* The PropertySummary pushed by checkProp (lines 181-191).
PropertySummary(n, prop) ==
    LET firstKf == prop.keyframes[1]
        lastKf == prop.keyframes[Len(prop.keyframes)]
    IN  [name |-> n,
         keyframeCount |-> Len(prop.keyframes),
         startValue |-> firstKf.value,
         endValue |-> lastKf.value,
         duration |-> lastKf.time - firstKf.time,
         delay |-> firstKf.time,
         easing |-> IF firstKf.temporalEasing = "present"
                    THEN firstKf.cubicBezier
                    ELSE NoBezier]

\* A checkProp that counts the property but leaves isAnimated alone.
checkPropCountOnly(summary, transform, n) ==
    IF ~Qualifies(transform, n) THEN summary
    ELSE [summary EXCEPT
            !.animatedPropertyCount = @ + 1,
            !.totalKeyframes = @ + Len(transform[n].keyframes),
            !.properties = Append(@, PropertySummary(n, transform[n]))]

\* checkProp (lines 169-192): accumulate the property of slot n.
checkProp(summary, transform, n) ==
    IF ~Qualifies(transform, n) THEN summary
    ELSE [isAnimated |-> TRUE,
          animatedPropertyCount |-> summary.animatedPropertyCount + 1,
          totalKeyframes |-> summary.totalKeyframes + Len(transform[n].keyframes),
          properties |-> Append(summary.properties,
                                PropertySummary(n, transform[n]))]

RECURSIVE ScanFrom(_, _, _)
ScanFrom(summary, transform, k) ==
    IF k > Len(ScanOrder) THEN summary
    ELSE ScanFrom(checkProp(summary, transform, ScanOrder[k]), transform, k + 1)

\* computeAnimationSummary (lines 154-218).
computeAnimationSummary(transform) ==
    ScanFrom([isAnimated |-> FALSE, animatedPropertyCount |-> 0,
              totalKeyframes |-> 0, properties |-> <<>>], transform, 1)

\* extractMasks: the names of the masks extracted (every layer of the model
\* has one mask); threw when masksGroup.numProperties throws in the loop
\* condition of line 27, which no try encloses.
extractMasks(layer) ==
    CASE layer.fault = "maskParade" -> [threw |-> FALSE, masks |-> <<>>]
      [] layer.fault = "maskCount" -> [threw |-> TRUE, masks |-> <<>>]
      [] layer.fault = "mask" -> [threw |-> FALSE, masks |-> <<>>]
      [] OTHER -> [threw |-> FALSE, masks |-> <<"Mask 1">>]

\* extractEffects: as extractMasks, for effectsGroup.numProperties.
extractEffects(layer) ==
    IF layer.fault = "effectCount"
    THEN [threw |-> TRUE, effects |-> <<>>]
    ELSE [threw |-> FALSE, effects |-> <<"Effect 1">>]

\* extractShapeData lines 1041-1043: the module-level _shapeExtractFrameRate
\* after the call; it is overwritten only by a positive number.
ShapeFrameRate(frameRate, shared) ==
    IF frameRate > 0 THEN frameRate ELSE shared

\* extractShapeData: the contents of the shape layer, one element holding the
\* layer's shape property, extracted at _shapeExtractFrameRate (line 912).
extractShapeData(layer, frameRate, shared) ==
    CASE layer.payloadFault = "guarded" -> [threw |-> FALSE, shapeData |-> <<>>]
      [] layer.payloadFault = "unguarded" -> [threw |-> TRUE, shapeData |-> <<>>]
      [] OTHER ->
           [threw |-> FALSE,
            shapeData |->
              <<[name |-> "Ellipse 1",
                 properties |->
                   <<extractAnimatedProperty(layer.shapeProperty,
                                             ShapeFrameRate(frameRate, shared))>>]>>]

\* The type-specific fields extractLayer assigns (lines 302-372), each with
\* "value" or, for the null a catch block assigns, "null".
TypePayload(layer) ==
    LET v == IF layer.payloadFault = "none" THEN "value" ELSE "null" IN
    CASE layer.type = "shape" -> [shapeData |-> "value"]
      [] layer.type = "text" -> [textData |-> v]
      [] layer.type = "precomp" -> [precompData |-> "value"]
      [] layer.type = "solid" -> [solidData |-> v]
      [] layer.type \in {"image", "video"} -> [sourceFile |-> v, sourceFileName |-> v]
      [] layer.type = "camera" -> [cameraData |-> v]
      [] layer.type = "light" -> [lightData |-> v]
      [] OTHER -> << >>

\* extractLayer (lines 227-378) with the module-level frame rate it finds:
\* threw when extractMasks, extractEffects, extractShapeData or
\* extractTextData throws; shared is _shapeExtractFrameRate after the call.
\* index is 0 for the null of line 235, enabled "null" for that of line 255.
extractLayer(layer, frameRate, shared) ==
    LET transform == extractTransform(layer, frameRate)
        shape == IF layer.type = "shape"
                 THEN extractShapeData(layer, frameRate, shared)
                 ELSE [threw |-> FALSE, shapeData |-> <<>>]
        textThrew == layer.type = "text" /\ layer.payloadFault = "unguarded"
        reachesPayload == ~extractMasks(layer).threw /\ ~extractEffects(layer).threw
    IN  [threw |-> ~reachesPayload \/ shape.threw \/ textThrew,
         shared |-> IF reachesPayload /\ layer.type = "shape"
                    THEN ShapeFrameRate(frameRate, shared)
                    ELSE shared,
         data |-> [index |-> IF layer.fault = "index" THEN 0 ELSE layer.index,
                   type |-> layer.type,
                   enabled |-> IF layer.fault = "enabled" THEN "null"
                               ELSE IF layer.enabled THEN "true" ELSE "false",
                   is3D |-> layer.threeD,
                   transform |-> transform,
                   masks |-> extractMasks(layer).masks,
                   effects |-> extractEffects(layer).effects,
                   payload |-> TypePayload(layer),
                   shapeData |-> shape.shapeData,
                   precompData |-> IF layer.type # "precomp" THEN << >>
                                   ELSE [compositionName |->
                                           IF layer.payloadFault = "none"
                                           THEN "name" ELSE "null"],
                   animationSummary |-> computeAnimationSummary(transform)]]

NoDocument == [assembled |-> FALSE, version |-> "", layers |-> <<>>]
NoOptions == [includeHidden |-> TRUE]

InitMain ==
    /\ host \in Hosts
    /\ options = NoOptions
    /\ pc = "start"
    /\ li = 0
    /\ layers = <<>>
    /\ document = NoDocument
    /\ log = <<>>
    /\ Loaded
    /\ IdleExceptMain

\* main.jsx lines 18-22: without an active composition, alert and return.
CheckActiveItem ==
    /\ pc = "start"
    /\ IF IsCompItem(host.activeItem)
       THEN pc' = "dialog" /\ log' = log
       ELSE pc' = "returned" /\ log' = Append(log, "alert: select a composition")
    /\ UNCHANGED <<host, options, li, layers, document, shapeExtractFrameRate, exceptMain>>

\* main.jsx lines 24-57: the options dialog; Cancel returns.
ShowDialog ==
    /\ pc = "dialog"
    /\ \E ok \in BOOLEAN, includeHidden \in BOOLEAN :
        IF ok
        THEN pc' = "extract" /\ options' = [includeHidden |-> includeHidden]
        ELSE pc' = "returned" /\ options' = options
    /\ UNCHANGED <<host, li, layers, document, log, shapeExtractFrameRate, exceptMain>>

\* main.jsx lines 70-85: options, frame rate, composition metadata.
ExtractComposition ==
    /\ pc = "extract"
    /\ log' = Append(log, "extractComposition")
    /\ li' = 1
    /\ layers' = <<>>
    /\ pc' = "loop"
    /\ UNCHANGED <<host, options, document, shapeExtractFrameRate, exceptMain>>

\* main.jsx lines 86-100: one iteration of the layer loop.  A throw of
\* comp.layer(i), layer.name, layer.enabled or extractLayer leaves the try
\* block for the catch of line 132.
LayerIteration ==
    /\ pc = "loop"
    /\ li <= Len(host.layers)
    /\ LET layer == LayerAt(host, li)
           extracted == extractLayer(layer, host.frameRate, shapeExtractFrameRate)
       IN
        IF layer.fault \in {"fetch", "name"}
        THEN /\ pc' = "catch"
             /\ UNCHANGED <<li, layers, log, shapeExtractFrameRate>>
        ELSE IF ~options.includeHidden /\ layer.fault = "enabled"
        THEN /\ pc' = "catch"
             /\ UNCHANGED <<li, layers, log, shapeExtractFrameRate>>
        ELSE IF SkipsLayer(options.includeHidden, layer.enabled)
        THEN /\ li' = li + 1
             /\ UNCHANGED <<pc, layers, log, shapeExtractFrameRate>>
        ELSE IF extracted.threw
        THEN /\ pc' = "catch"
             /\ log' = Append(log, "extractLayer")
             /\ shapeExtractFrameRate' = extracted.shared
             /\ UNCHANGED <<li, layers>>
        ELSE /\ layers' = Append(layers, [slot |-> li, data |-> extracted.data])
             /\ log' = Append(log, "extractLayer")
             /\ shapeExtractFrameRate' = extracted.shared
             /\ li' = li + 1
             /\ pc' = pc
    /\ UNCHANGED <<host, options, document, exceptMain>>

\* main.jsx lines 102-122: the document is assembled and serialized.
BuildDocument ==
    /\ pc = "loop"
    /\ li > Len(host.layers)
    /\ document' = [assembled |-> TRUE, version |-> "1.0.0", layers |-> layers]
    /\ log' = Append(log, "jsonStringify")
    /\ pc' = "save"
    /\ UNCHANGED <<host, options, li, layers, shapeExtractFrameRate, exceptMain>>

\* main.jsx lines 124-130: the save dialog; the user may cancel it.
SaveFile ==
    /\ pc = "save"
    /\ \E saved \in BOOLEAN :
        log' = IF saved
               THEN log \o <<"saveJsonFile", "alert: exported">>
               ELSE Append(log, "saveJsonFile")
    /\ pc' = "done"
    /\ UNCHANGED <<host, options, li, layers, document, shapeExtractFrameRate, exceptMain>>

\* main.jsx lines 132-135: the catch block reports the error.
CatchError ==
    /\ pc = "catch"
    /\ log' = Append(log, "alert: error during extraction")
    /\ pc' = "failed"
    /\ UNCHANGED <<host, options, li, layers, document, shapeExtractFrameRate, exceptMain>>

NextMain ==
    \/ CheckActiveItem
    \/ ShowDialog
    \/ ExtractComposition
    \/ LayerIteration
    \/ BuildDocument
    \/ SaveFile
    \/ CatchError

SpecMain == InitMain /\ [][NextMain]_vars

(***************************************************************************)
(*                 extractLayer, called layer after layer                  *)
(***************************************************************************)

\* The frameRate arguments of extractLayer: 0 stands for every argument
\* that fails typeof frameRate === "number" && frameRate > 0.
FrameRateArgs == {0, 24, 30}

\* Layers whose transform holds two chosen properties besides static ones.
SummaryLayers ==
    { HostLayer(TRUE, "none", "null", sep, td,
                [n \in TransformNames |->
                    IF n = ScanOrder[k1] THEN p1
                    ELSE IF n = ScanOrder[k2] THEN p2
                    ELSE StaticProperty],
                "none", 0) :
        sep \in BOOLEAN, td \in BOOLEAN,
        k1 \in {1, 2, 4, 6, 9}, k2 \in {3, 5, 8, 11},
        p1 \in TransformProfiles, p2 \in TransformProfiles }

\* Layers of every type, with their type-specific reads failing or not.
TypedLayers ==
    { HostLayer(TRUE, "none", t, FALSE, FALSE, StaticTransform, pf,
                IF t = "precomp" THEN 1 ELSE 0) :
        t \in LayerTypes, pf \in PayloadFaults }

\* Precomp layers over compositions nested up to MaxNesting deep.
PrecompLayers ==
    { HostLayer(TRUE, "none", "precomp", FALSE, FALSE, StaticTransform, "none", n) :
        n \in 1..MaxNesting }

\* The calls made: extractLayer(layer, frameRate, options).
SummaryCalls ==
    { [layer |-> l, frameRate |-> 30, maxPrecompDepth |-> 5] : l \in SummaryLayers }

LayerCalls ==
    { [layer |-> l, frameRate |-> fr, maxPrecompDepth |-> 5] :
        l \in TypedLayers, fr \in FrameRateArgs }
    \cup { [layer |-> l, frameRate |-> 30, maxPrecompDepth |-> d] :
              l \in PrecompLayers, d \in {1, 5} }

NoLayerData == [status |-> "none"]

InitLayer ==
    /\ Loaded
    /\ call = Idle
    /\ layerData = NoLayerData
    /\ calls = 0
    /\ IdleExceptLayer

\* One call of extractLayer; the third argument is not a parameter of the
\* function (line 227) and is ignored.
ExtractLayer ==
    /\ calls < MaxCalls
    /\ \E c \in LayerCalls :
         LET extracted == extractLayer(c.layer, c.frameRate, shapeExtractFrameRate)
         IN  /\ call' = c
             /\ layerData' = IF extracted.threw
                             THEN [status |-> "threw"]
                             ELSE [status |-> "returned", data |-> extracted.data]
             /\ shapeExtractFrameRate' = extracted.shared
    /\ calls' = calls + 1
    /\ UNCHANGED exceptLayer

NextLayer == ExtractLayer

SpecLayer == InitLayer /\ [][NextLayer]_vars

\* A single call of extractLayer on a layer with an animated transform.
InitSummary ==
    /\ Loaded
    /\ call \in SummaryCalls
    /\ layerData = NoLayerData
    /\ calls = 0
    /\ IdleExceptLayer

SummarizeLayer ==
    /\ calls = 0
    /\ LET extracted == extractLayer(call.layer, call.frameRate, shapeExtractFrameRate)
       IN  /\ layerData' = IF extracted.threw
                           THEN [status |-> "threw"]
                           ELSE [status |-> "returned", data |-> extracted.data]
           /\ shapeExtractFrameRate' = extracted.shared
    /\ calls' = 1
    /\ UNCHANGED <<call, exceptLayer>>

NextSummary == SummarizeLayer

SpecSummary == InitSummary /\ [][NextSummary]_vars

(***************************************************************************)
(*        validateMotionSpec (figma-plugin, schema validation)             *)
(***************************************************************************)

MaxDocLayers == 1  \* most layers of a validated document

\* A layer of a document: which of its fields pass validateLayer's tests
\* (name, type, transform and animationSummary truthy; inPoint and outPoint
\* numbers).
DocLayers ==
    [name : BOOLEAN, type : BOOLEAN, inPoint : BOOLEAN, outPoint : BOOLEAN,
     transform : BOOLEAN, animationSummary : BOOLEAN]

\* The value of composition.layers: not an array, or an array of layers.
DocLayerLists ==
    { [isArray |-> FALSE, items |-> <<>>] }
    \cup { [isArray |-> TRUE, items |-> l] :
             l \in UNION { [1..n -> DocLayers] : n \in 0..MaxDocLayers } }

\* The value of doc.composition: falsy, a truthy non-object, or an object
\* (name truthy or not; width, height, frameRate, duration numbers or not).
NoComposition == [kind |-> "missing"]

DocCompositions ==
    { NoComposition, [kind |-> "string"] }
    \cup [kind : {"object"}, name : BOOLEAN, width : BOOLEAN, height : BOOLEAN,
          frameRate : BOOLEAN, duration : BOOLEAN, layers : DocLayerLists]

\* The values handed to validateMotionSpec: a falsy or non-object value, or
\* an object.
Documents ==
    { [kind |-> "null"] }
    \cup [kind : {"object"}, version : BOOLEAN, exportInfo : BOOLEAN,
          composition : DocCompositions]

\* A message; layer is the index of the layer it names, -1 for none.
Message(layer, text) == [layer |-> layer, text |-> text]

\* if (test) list.push(message)
PushIf(test, list, message) == IF test THEN Append(list, message) ELSE list

\* validateLayer (lines 48-55); r holds the errors and warnings so far
validateLayer(layer, index, r) ==
    LET e1 == PushIf(~layer.name, r.errors, Message(index, "missing name"))
        e2 == PushIf(~layer.type, e1, Message(index, "missing type"))
        w1 == PushIf(~layer.inPoint, r.warnings, Message(index, "missing inPoint"))
        w2 == PushIf(~layer.outPoint, w1, Message(index, "missing outPoint"))
        w3 == PushIf(~layer.transform, w2, Message(index, "missing transform"))
        w4 == PushIf(~layer.animationSummary, w3, Message(index, "missing animationSummary"))
    IN  [errors |-> e2, warnings |-> w4]

\* The loop of lines 42-44 from layer i (1-based) on.
RECURSIVE validateLayersFrom(_, _, _)
validateLayersFrom(items, i, r) ==
    IF i > Len(items) THEN r
    ELSE validateLayersFrom(items, i + 1, validateLayer(items[i], i - 1, r))

\* validateComposition (lines 31-46)
validateComposition(comp, r) ==
    LET e1 == PushIf(~comp.name, r.errors, Message(-1, "Composition missing name"))
        e2 == PushIf(~comp.width, e1, Message(-1, "Composition missing width"))
        e3 == PushIf(~comp.height, e2, Message(-1, "Composition missing height"))
        e4 == PushIf(~comp.frameRate, e3, Message(-1, "Composition missing frameRate"))
        e5 == PushIf(~comp.duration, e4, Message(-1, "Composition missing duration"))
    IN  IF ~comp.layers.isArray
        THEN [errors |-> Append(e5, Message(-1, "Composition missing layers array")),
              warnings |-> r.warnings]
        ELSE validateLayersFrom(comp.layers.items, 1,
                 [errors |-> e5,
                  warnings |-> PushIf(comp.layers.items = <<>>, r.warnings,
                                      Message(-1, "Composition has no layers"))])

\* validateMotionSpec (lines 9-29)
validateMotionSpec(doc) ==
    IF doc.kind # "object"
    THEN [valid |-> FALSE,
          errors |-> <<Message(-1, "Input is not a valid object")>>,
          warnings |-> <<>>]
    ELSE LET e1 == PushIf(~doc.version, <<>>, Message(-1, "Missing version field"))
             e2 == PushIf(doc.composition.kind = "missing", e1,
                          Message(-1, "Missing composition field"))
             w1 == PushIf(~doc.exportInfo, <<>>, Message(-1, "Missing exportInfo field"))
             r == IF doc.composition.kind = "object"
                  THEN validateComposition(doc.composition, [errors |-> e2, warnings |-> w1])
                  ELSE [errors |-> e2, warnings |-> w1]
         IN  [valid |-> Len(r.errors) = 0, errors |-> r.errors, warnings |-> r.warnings]

\* No call made yet.
NotValidated == [valid |-> FALSE, errors |-> <<>>, warnings |-> <<>>]

InitValidate ==
    /\ data \in Documents
    /\ validation = NotValidated
    /\ IdleExceptValidate

ValidateMotionSpec ==
    /\ validation = NotValidated
    /\ validation' = validateMotionSpec(data)
    /\ UNCHANGED <<data, exceptValidate>>

NextValidate == ValidateMotionSpec

SpecValidate == InitValidate /\ [][NextValidate]_vars

(***************************************************************************)
(*        getPropertyValue / normalizeKeyValue on any host value           *)
(***************************************************************************)

MaxDims == 3  \* most components of a host array value

\* The numbers host values are made of, in value units.
RawNumbers == {-150000, 0, 1, 10000000}

\* What a host property can hold: a number, an array of numbers (position,
\* scale, colour), a string, a boolean, undefined, a host object (Shape,
\* TextDocument, MarkerValue) and a host object String() cannot convert.
RawValues ==
    { Number(n) : n \in RawNumbers }
    \cup { Array(d) : d \in UNION { [1..n -> RawNumbers] : n \in 0..MaxDims } }
    \cup { Other(k) : k \in {"string", "boolean", "undefined", "object", "unstringable"} }

\* A host property as the normalizer sees it: whether property.value can be
\* read, and the value.
RawProperties == { [valueOk |-> ok, motion |-> [a |-> v]] : ok \in BOOLEAN, v \in RawValues }

NotNormalized == [fn |-> "none", value |-> NullValue]

InitValue ==
    /\ reading \in RawProperties
    /\ normalized = NotNormalized
    /\ IdleExceptValue

\* getPropertyValue(property)
GetPropertyValue ==
    /\ normalized = NotNormalized
    /\ normalized' = [fn |-> "getPropertyValue", value |-> getPropertyValue(reading)]
    /\ UNCHANGED <<reading, exceptValue>>

\* normalizeKeyValue(val), val a value the caller has read
NormalizeKeyValue ==
    /\ normalized = NotNormalized
    /\ reading.valueOk
    /\ normalized' = [fn |-> "normalizeKeyValue", value |-> normalizeKeyValue(reading.motion.a)]
    /\ UNCHANGED <<reading, exceptValue>>

NextValue == GetPropertyValue \/ NormalizeKeyValue

SpecValue == InitValue /\ [][NextValue]_vars

(***************************************************************************)
(*        jsonStringify (utils/json-stringify.jsx)                         *)
(***************************************************************************)

MaxNodes == 2  \* most objects and arrays of a serialized graph

\* A value is the number 0 or a reference to one of the graph's objects.
\* Even-numbered objects are arrays, odd-numbered ones plain objects.
NumberValue == 0
Nodes == 1..MaxNodes
Values == {NumberValue} \cup Nodes
IsArray(n) == n % 2 = 0

\* How many elements or keys an object of the graph has.
ChildCounts == {0, 2}

\* graph.root is the value handed to jsonStringify, graph.children[n] the
\* elements (or the values of the keys, in key order) of object n; any
\* object may refer to any other and to itself.
Graphs ==
    { [root |-> NumberValue, children |-> [n \in Nodes |-> <<>>]] }
    \cup [root : {1},
          children : [Nodes -> UNION { [1..c -> Values] : c \in ChildCounts }]]

\* Object.keys(value)[i - 1], escaped
KeyNames == <<"\"a\"", "\"b\"", "\"c\"", "\"d\"">>

\* seen.indexOf(value) !== -1
IsSeen(sn, value) == \E i \in 1..Len(sn) : sn[i] = value

\* seen.pop() left out: an object stays in seen after its call has returned.
SeenKept(sn) == sn

\* seen.pop()
PopSeen(sn) == SubSeq(sn, 1, Len(sn) - 1)

\* The return of lines 128-131 / 148-151 with its seen.pop() left out.
EmptyReturnNoPop(sn, value) == Append(sn, value)

\* seen after the return for an empty array or object: pushed at line 111,
\* popped at line 129 / 149.
EmptyReturn(sn, value) == PopSeen(Append(sn, value))

\* items.join(separator) with indentSize 0; a string is its list of tokens
RECURSIVE Join(_)
Join(items) ==
    IF items = <<>> THEN <<>>
    ELSE IF Len(items) = 1 THEN items[1]
    ELSE items[1] \o <<",">> \o Join(Tail(items))

\* What line 139 (arrays) or line 163 (objects) pushes for child i.
Item(n, i, val) == IF IsArray(n) THEN val ELSE <<KeyNames[i], ":">> \o val

\* The return value of lines 142 / 171.
Closed(n, items) ==
    IF IsArray(n) THEN <<"[">> \o Join(items) \o <<"]">>
    ELSE <<"{">> \o Join(items) \o <<"}">>

\* A call of serialize that returns without recursing, and what it returns:
\* a number (line 97), a value already in seen (line 109), an empty array or
\* object (lines 130, 150).
ReturnsAtOnce(value, sn) ==
    IF value = NumberValue \/ IsSeen(sn, value) THEN TRUE
    ELSE graph.children[value] = <<>>

Immediate(value, sn) ==
    IF value = NumberValue THEN <<"0">>
    ELSE IF IsSeen(sn, value) THEN <<"\"[Circular]\"">>
    ELSE IF IsArray(value) THEN <<"[]">> ELSE <<"{}">>

SeenAfterImmediate(value, sn) ==
    IF value = NumberValue \/ IsSeen(sn, value) THEN sn ELSE EmptyReturn(sn, value)

SerializeFrame(n) == [node |-> n, i |-> 1, items |-> <<>>]

\* The caller's loop takes the value serialize returned and goes on to the
\* next element; with no caller the value is jsonStringify's result.
Deliver(fs, val) ==
    LET top == fs[Len(fs)]
    IN  [fs EXCEPT ![Len(fs)] =
            [top EXCEPT !.items = Append(@, Item(top.node, top.i, val)),
                        !.i = @ + 1]]

NotSerialized == <<"not serialized">>

\* A layer as extractLayer builds it: the object 1 holds a keyframe (3) and
\* an entry of animationSummary.properties (5); checkProp (layer.jsx lines
\* 181-189) stores in the entry the keyframe's own value array (2) and its
\* own cubicBezier object (7).
SharedDocument ==
    [root |-> 1,
     children |-> << <<3, 5>>, <<0, 0>>, <<2, 7>>, <<>>, <<2, 7>>, <<>>, <<0, 0>> >>]

InitJson ==
    /\ graph \in Graphs \cup {SharedDocument}
    /\ frames = <<>>
    /\ seen = <<>>
    /\ json = NotSerialized
    /\ IdleExceptJson

\* jsonStringify(obj): serialize(obj, 0) returns without recursing
StringifyAtOnce ==
    /\ json = NotSerialized
    /\ frames = <<>>
    /\ ReturnsAtOnce(graph.root, seen)
    /\ json' = Immediate(graph.root, seen)
    /\ seen' = SeenAfterImmediate(graph.root, seen)
    /\ UNCHANGED <<graph, frames, exceptJson>>

\* jsonStringify(obj): serialize(obj, 0) enters its loop
StringifyEnter ==
    /\ json = NotSerialized
    /\ frames = <<>>
    /\ ~ReturnsAtOnce(graph.root, seen)
    /\ seen' = Append(seen, graph.root)
    /\ frames' = <<SerializeFrame(graph.root)>>
    /\ UNCHANGED <<graph, json, exceptJson>>

\* serialize(value[i], level + 1) returns without recursing
SerializeChildAtOnce ==
    /\ frames # <<>>
    /\ LET top == frames[Len(frames)]
           kids == graph.children[top.node]
       IN  /\ top.i <= Len(kids)
           /\ ReturnsAtOnce(kids[top.i], seen)
           /\ frames' = Deliver(frames, Immediate(kids[top.i], seen))
           /\ seen' = SeenAfterImmediate(kids[top.i], seen)
    /\ UNCHANGED <<graph, json, exceptJson>>

\* serialize(value[i], level + 1) enters its own loop
SerializeChildEnter ==
    /\ frames # <<>>
    /\ LET top == frames[Len(frames)]
           kids == graph.children[top.node]
       IN  /\ top.i <= Len(kids)
           /\ ~ReturnsAtOnce(kids[top.i], seen)
           /\ seen' = Append(seen, kids[top.i])
           /\ frames' = Append(frames, SerializeFrame(kids[top.i]))
    /\ UNCHANGED <<graph, json, exceptJson>>

\* the loop is over: seen.pop() and return (lines 141-142, 170-171)
SerializeReturn ==
    /\ frames # <<>>
    /\ LET top == frames[Len(frames)]
           val == Closed(top.node, top.items)
           rest == SubSeq(frames, 1, Len(frames) - 1)
       IN  /\ top.i > Len(graph.children[top.node])
           /\ seen' = PopSeen(seen)
           /\ IF rest = <<>>
              THEN frames' = rest /\ json' = val
              ELSE frames' = Deliver(rest, val) /\ json' = json
    /\ UNCHANGED <<graph, exceptJson>>

NextJson ==
    \/ StringifyAtOnce
    \/ StringifyEnter
    \/ SerializeChildAtOnce
    \/ SerializeChildEnter
    \/ SerializeReturn

\* The script is single-threaded: a call that can take a step takes it.
SpecJson == InitJson /\ [][NextJson]_vars /\ WF_vars(NextJson)

(***************************************************************************)
(*        bezierYForX (figma-plugin, utils/bezier-math.ts)                 *)
(***************************************************************************)

\* Coordinates and curve parameters are fixed-point numbers, NewtonOne to 1.
NewtonOne == 1000000
NewtonEpsilon == 100      \* epsilon: number = 0.0001
NewtonIterations == 10    \* for (let i = 0; i < 10; i++)

GridSteps == 100   \* targetX values spread evenly over [0, 1]
FineSteps == 40    \* targetX values next to 0 and next to 1

\* a * b for |b| <= 1, by limbs of b so that no product leaves 32 bits.
MulAbs(a, b) ==
    (a * (b \div 10000)) \div 100
    + (a * ((b \div 100) % 100)) \div 10000
    + (a * (b % 100)) \div NewtonOne

Mul(a, b) ==
    IF (a < 0) = (b < 0) THEN MulAbs(Abs(a), Abs(b)) ELSE 0 - MulAbs(Abs(a), Abs(b))

\* n / d for d # 0, by long division; a quotient beyond 2 is cut to 2 (line
\* 58 clamps t to [0, 1], so such a step ends at 0 or at 1 either way).
DivAbs(n, d) ==
    LET q1 == (n * 100) \div d
        r1 == (n * 100) % d
        q2 == (r1 * 100) \div d
        r2 == (r1 * 100) % d
        q3 == (r2 * 100) \div d
    IN  IF q1 >= 200 THEN 2 * NewtonOne ELSE q1 * 10000 + q2 * 100 + q3

Div(n, d) ==
    IF (n < 0) = (d < 0) THEN DivAbs(Abs(n), Abs(d)) ELSE 0 - DivAbs(Abs(n), Abs(d))

\* sampleCubicBezier (lines 8-23)
sampleCubicBezier(x1, y1, x2, y2, t) ==
    LET mt == NewtonOne - t
        mt2 == Mul(mt, mt)
        mt3 == Mul(mt2, mt)
        t2 == Mul(t, t)
        t3 == Mul(t2, t)
    IN  [x |-> Mul(mt3, 0) + Mul(Mul(3 * mt2, t), x1) + Mul(Mul(3 * mt, t2), x2)
               + Mul(t3, NewtonOne),
         y |-> Mul(mt3, 0) + Mul(Mul(3 * mt2, t), y1) + Mul(Mul(3 * mt, t2), y2)
               + Mul(t3, NewtonOne)]

\* Math.abs(dx) < epsilon, with an epsilon a hundred times too large
WithinEpsilonLoose(d) == Abs(d) < 100 * NewtonEpsilon

\* Math.abs(dx) < epsilon (lines 51, 56)
WithinEpsilon(d) == Abs(d) < NewtonEpsilon

\* dxdt (lines 54-55)
Derivative(x1, x2, t) ==
    LET mt == NewtonOne - t
    IN  Mul(Mul(3 * mt, mt), x1) + Mul(Mul(6 * mt, t), x2 - x1)
        + Mul(Mul(3 * t, t), NewtonOne - x2)

\* t -= dx / dxdt; t = Math.max(0, Math.min(1, t))  (lines 57-58)
NewtonStep(t, dx, dxdt) == Max(0, Min(NewtonOne, t - Div(dx, dxdt)))

\* The curves bezierYForX is called with: the identity curve (0, 0, 1, 1)
\* and the curve (0, 0, 0, 1), whose x is flat at t = 0.
IdentityCurve == [x1 |-> 0, y1 |-> 0, x2 |-> NewtonOne, y2 |-> NewtonOne]
Curves == { IdentityCurve, [x1 |-> 0, y1 |-> 0, x2 |-> 0, y2 |-> NewtonOne] }

TargetXs ==
    { (k * NewtonOne) \div GridSteps : k \in 0..GridSteps }
    \cup { k * 25 : k \in 0..FineSteps }
    \cup { NewtonOne - k * 25 : k \in 0..FineSteps }

InitNewton ==
    /\ newton \in { [curve |-> c, targetX |-> x, t |-> x, i |-> 0,
                     at |-> "loop", y |-> 0] : c \in Curves, x \in TargetXs }
    /\ IdleExceptNewton

\* One pass of the loop body (lines 49-58).
NewtonIterate ==
    /\ newton.at = "loop"
    /\ newton.i < NewtonIterations
    /\ LET c == newton.curve
           point == sampleCubicBezier(c.x1, c.y1, c.x2, c.y2, newton.t)
           dx == point.x - newton.targetX
           dxdt == Derivative(c.x1, c.x2, newton.t)
       IN  newton' =
             IF WithinEpsilon(dx)
             THEN [newton EXCEPT !.at = "returned", !.y = point.y]
             ELSE IF WithinEpsilon(dxdt)
             THEN [newton EXCEPT !.at = "after"]
             ELSE [newton EXCEPT !.t = NewtonStep(newton.t, dx, dxdt),
                                 !.i = @ + 1]
    /\ UNCHANGED exceptNewton

\* The loop was left by break or after its last pass (line 60).
NewtonReturn ==
    /\ \/ newton.at = "after"
       \/ newton.at = "loop" /\ newton.i >= NewtonIterations
    /\ LET c == newton.curve
       IN  newton' = [newton EXCEPT !.at = "returned",
                         !.y = sampleCubicBezier(c.x1, c.y1, c.x2, c.y2, newton.t).y]
    /\ UNCHANGED exceptNewton

NextNewton == NewtonIterate \/ NewtonReturn

SpecNewton == InitNewton /\ [][NextNewton]_vars

(***************************************************************************)
(*        computeAnimationSummary on any extracted layerData               *)
(***************************************************************************)

\* What extractAnimatedProperty leaves in a slot of an extracted transform:
\* null (a NO_VALUE property), a static descriptor, or an animated one with
\* 0..MaxSummaryKeys keyframes.
ExtractedProperties ==
    { extractAnimatedProperty(p, 30) :
        p \in {StaticProperty, [StaticProperty EXCEPT !.valueType = "NO_VALUE"]}
              \cup { HostProperty("true", [i \in 1..k |-> {}], MotionOf("opacity")) :
                       k \in 0..MaxSummaryKeys } }

\* One slot of each part of the scan: the five standard properties, the 3D
\* rotation axes, the separated position.
ReducedSlots == {"position", "rotationX", "positionX"}

\* layerData: without a transform, or with a transform each slot of which is
\* absent or holds an extracted property.
ExtractedLayerData ==
    { [hasTransform |-> FALSE, transform |-> << >>] }
    \cup { [hasTransform |-> TRUE, transform |-> t] :
             t \in UNION { [d -> ExtractedProperties] : d \in SUBSET ReducedSlots } }

\* transform[n], undefined for a slot that is absent
SlotValue(transform, n) ==
    IF n \in DOMAIN transform THEN transform[n] ELSE NoDescriptor("undefined")

\* A test of prop that takes null and undefined for objects.
FalsyNever(prop) == FALSE

\* !prop (line 170): prop is null or undefined
Falsy(prop) == prop.status # "returned"

\* The slots handed to checkProp as they are (lines 194-195, 209-210); the
\* 3D axes and positionSeparated.z are tested first (lines 198-200, 211).
HandedOver(transform) ==
    {"anchorPoint", "position", "scale", "rotation", "opacity"}
    \cup (IF {"positionX", "positionY", "positionZ"} \cap DOMAIN transform # {}
          THEN {"positionX", "positionY"} ELSE {})

\* checkProp reads prop.isAnimated of a prop that is null or undefined: a
\* TypeError.
checkPropThrows(transform, n) ==
    /\ n \in HandedOver(transform)
    /\ ~Falsy(SlotValue(transform, n))
    /\ SlotValue(transform, n).status # "returned"

EmptySummary ==
    [isAnimated |-> FALSE, animatedPropertyCount |-> 0,
     totalKeyframes |-> 0, properties |-> <<>>]

\* A call computeAnimationSummary(layerData) and how it ends.
Reduction(layerDatum) ==
    IF ~layerDatum.hasTransform
    THEN [status |-> "returned", summary |-> EmptySummary]
    ELSE IF \E k \in 1..Len(ScanOrder) : checkPropThrows(layerDatum.transform, ScanOrder[k])
    THEN [status |-> "threw", summary |-> EmptySummary]
    ELSE [status |-> "returned", summary |-> computeAnimationSummary(layerDatum.transform)]

NotReduced == [status |-> "none", summary |-> EmptySummary]

InitReduce ==
    /\ given \in ExtractedLayerData
    /\ reduced = NotReduced
    /\ IdleExceptReduce

\* computeAnimationSummary(layerData): it assigns to its local summary only.
ComputeAnimationSummary ==
    /\ reduced = NotReduced
    /\ reduced' = Reduction(given)
    /\ UNCHANGED <<given, exceptReduce>>

NextReduce == ComputeAnimationSummary

SpecReduce == InitReduce /\ [][NextReduce]_vars

(***************************************************************************)
(* detectLayerType and isImageFile (layer.jsx lines 17-141).  Strings are  *)
(* sequences of characters.                                                *)
(***************************************************************************)
IMAGE_EXTENSIONS ==
    { <<".", "p", "n", "g">>,
      <<".", "j", "p", "g">>,
      <<".", "j", "p", "e", "g">>,
      <<".", "g", "i", "f">>,
      <<".", "b", "m", "p">>,
      <<".", "t", "i", "f">>,
      <<".", "t", "i", "f", "f">>,
      <<".", "p", "s", "d">>,
      <<".", "a", "i">>,
      <<".", "e", "p", "s">>,
      <<".", "s", "v", "g">>,
      <<".", "w", "e", "b", "p">>,
      <<".", "i", "c", "o">>,
      <<".", "e", "x", "r">>,
      <<".", "h", "d", "r">>,
      <<".", "t", "g", "a">>,
      <<".", "d", "p", "x">>,
      <<".", "c", "i", "n">> }

UpperCase == <<"A", "B", "C", "D", "E", "F", "G", "H", "I", "J", "K", "L", "M", "N", "O", "P", "Q", "R", "S", "T", "U", "V", "W", "X", "Y", "Z">>
LowerCase == <<"a", "b", "c", "d", "e", "f", "g", "h", "i", "j", "k", "l", "m", "n", "o", "p", "q", "r", "s", "t", "u", "v", "w", "x", "y", "z">>

\* String.prototype.toLowerCase, character by character.
toLowerCaseChar(c) ==
    IF \E k \in 1..Len(UpperCase) : UpperCase[k] = c
    THEN LowerCase[CHOOSE k \in 1..Len(UpperCase) : UpperCase[k] = c]
    ELSE c
toLowerCase(s) == [k \in 1..Len(s) |-> toLowerCaseChar(s[k])]

\* lower.substring(lower.length - ext.length)
Suffix(s, n) == SubSeq(s, Len(s) - n + 1, Len(s))

\* isImageFile: a fileName that is no string has no toLowerCase, and the
\* call throws.
isImageFile(fileName) ==
    IF fileName = <<"undefined">> THEN "threw"
    ELSE LET lower == toLowerCase(fileName)
         IN  IF \E ext \in IMAGE_EXTENSIONS :
                    Len(lower) >= Len(ext) /\ Suffix(lower, Len(ext)) = ext
             THEN "true" ELSE "false"

\* The file names of footage; the last stands for a name read that gives
\* no string.
FileNames ==
    { <<"c", "l", "i", "p", ".", "m", "o", "v">>,
      <<"l", "o", "g", "o", ".", "P", "N", "G">>,
      <<"a", ".", "t", "i", "f", "f">>,
      <<"x", ".", "a", "i", "f", "f">>,
      <<"a", "i">>,
      <<"s", "h", "o", "t", ".", "p", "n", "g", ".", "m", "p", "4">>,
      <<"f", ".", "J", "p", "e", "g">>,
      <<".", "a", "i">>,
      <<"undefined">> }

\* matchName and constructor of the four layer kinds tested first.
KindMatchName ==
    [shape |-> "ADBE Vector Layer", text |-> "ADBE Text Layer",
     camera |-> "ADBE Camera Layer", light |-> "ADBE Light Layer",
     av |-> "ADBE AV Layer"]
KindClass ==
    [shape |-> "ShapeLayer", text |-> "TextLayer", camera |-> "CameraLayer",
     light |-> "LightLayer", av |-> "AVLayer"]
LayerKinds == {"shape", "text", "camera", "light", "av"}

\* What layer.source is: absent, a read that throws, an item of neither
\* class, a composition, or a footage item with its mainSource.
MainSources ==
    {[kind |-> "SolidSource"], [kind |-> "PlaceholderSource"], [kind |-> "throws"],
     [kind |-> "FileSource", file |-> "none"],
     [kind |-> "FileSource", file |-> "missing"]}
    \cup { [kind |-> "FileSource", file |-> "exists", name |-> n] : n \in FileNames }
LayerSources ==
    {[kind |-> "none"], [kind |-> "throws"], [kind |-> "FolderItem"],
     [kind |-> "CompItem"]}
    \cup { [kind |-> "FootageItem", mainSource |-> m] : m \in MainSources }

\* The host layers: matchName reads or throws; the constructor tests
\* resolve or throw ("Unresolved"); cameras and lights carry neither an
\* adjustment flag nor a source.
MarkedLayers ==
    { [matchName |-> mn, class |-> c, adjustmentLayer |-> a, source |-> s] :
        mn \in {KindMatchName[k] : k \in LayerKinds} \cup {"throws"},
        c \in {KindClass[k] : k \in LayerKinds} \cup {"Unresolved"},
        a \in {"true", "false", "throws"}, s \in LayerSources }

RealLayers ==
    { l \in MarkedLayers :
        \E k \in LayerKinds :
            /\ l.matchName \in {KindMatchName[k], "throws"}
            /\ l.class \in {KindClass[k], "Unresolved"}
            /\ k \in {"camera", "light"} =>
                   l.adjustmentLayer # "true" /\ l.source.kind \in {"none", "throws"}
            /\ k \in {"shape", "text"} => l.source.kind \in {"none", "throws"} }

\* matchName === name || layer instanceof class, inside its try block
\* (lines 63-87): a throwing constructor test is caught.
MarkerTest(matchName, layer, kind) ==
    \/ matchName = KindMatchName[kind]
    \/ layer.class = KindClass[kind]

\* A catch block that swallows what the try block threw (lines 127, 136).
Rethrown(outcome) == outcome
Swallowed(outcome) == IF outcome = "threw" THEN "fallthrough" ELSE outcome

\* Lines 119-127: the file-based footage block.
FileBlock(mainSource) ==
    IF mainSource.kind = "FileSource" /\ mainSource.file = "exists"
    THEN LET image == isImageFile(mainSource.name)
         IN  CASE image = "threw" -> "threw"
               [] image = "true" -> "image"
               [] OTHER -> "video"
    ELSE "fallthrough"

\* Lines 110-131: the footage block.
FootageBlock(source) ==
    IF source.mainSource.kind = "SolidSource" THEN "solid"
    ELSE LET fromFile == Swallowed(FileBlock(source.mainSource))
         IN  IF fromFile = "fallthrough" THEN "solid" ELSE fromFile

\* Lines 99-136: the source block.
SourceBlock(layer) ==
    CASE layer.source.kind \in {"none", "throws", "FolderItem"} -> "fallthrough"
      [] layer.source.kind = "CompItem" -> "precomp"
      [] layer.source.kind = "FootageItem" -> FootageBlock(layer.source)

detectLayerType(layer) ==
    LET matchName == IF layer.matchName = "throws" THEN "" ELSE layer.matchName
        fromSource == SourceBlock(layer)
    IN  CASE MarkerTest(matchName, layer, "shape") -> "shape"
          [] MarkerTest(matchName, layer, "text") -> "text"
          [] MarkerTest(matchName, layer, "camera") -> "camera"
          [] MarkerTest(matchName, layer, "light") -> "light"
          [] layer.adjustmentLayer = "true" -> "adjustment"
          [] fromSource # "fallthrough" -> fromSource
          [] OTHER -> "null"

NotDetected == [status |-> "none"]

InitDetect ==
    /\ aeLayer \in RealLayers
    /\ detected = NotDetected
    /\ IdleExceptDetect

\* One call of detectLayerType on the layer.
DetectLayerType ==
    /\ detected = NotDetected
    /\ LET type == detectLayerType(aeLayer)
       IN  detected' = IF type = "threw" THEN [status |-> "threw"]
                       ELSE [status |-> "returned", type |-> type]
    /\ UNCHANGED <<aeLayer, exceptDetect>>

NextDetect == DetectLayerType
SpecDetect == InitDetect /\ [][NextDetect]_vars

(***************************************************************************)
(* extractShapeData and extractShapeGroup (layer.jsx lines 967-1056)       *)
(***************************************************************************)
MaxVectorSlots == 2     \* props of the root contents of a "fan" tree
MaxVectorNesting == 23  \* longest chain of nested vector groups
MaxShapeStack == 26     \* calls the host's stack holds before it overruns

(* The host trees.  A contents group ("ADBE Vectors Group") is named by an *)
(* integer, the root contents by 0.                                        *)
(*   fan:     the root contents hold Len(slots) props; a vector group in   *)
(*            slot j has the contents 10*j, which hold one element.        *)
(*   selfRef: the root contents hold an element and a vector group whose   *)
(*            contents are the root contents again.                        *)
(*   chain:   contents c < len hold one vector group whose contents are    *)
(*            c + 1; contents len hold one element.                        *)
VectorKinds ==
    { "fetchThrows",     \* property(i) throws
      "null",            \* property(i) returns nothing
      "element",         \* a shape element (rectangle, fill, ...)
      "nameThrows",      \* a prop whose name read throws
      "group",           \* a vector group holding one element
      "emptyGroup",      \* a vector group whose contents hold nothing
      "groupNoContents", \* a vector group without "ADBE Vectors Group"
      "groupThrows" }    \* a vector group whose contents fetch throws

VectorTrees ==
    { [shape |-> "fan", slots |-> s, len |-> 0] :
          s \in UNION { [1..k -> VectorKinds] : k \in 0..MaxVectorSlots } }
    \cup { [shape |-> "selfRef", slots |-> <<>>, len |-> 0] }
    \cup { [shape |-> "chain", slots |-> <<>>, len |-> l] : l \in 1..MaxVectorNesting }

RootContents == 0

\* propertyGroup.numProperties of the contents c
VectorCount(t, c) ==
    CASE t.shape = "selfRef" -> 2
      [] t.shape = "chain" -> 1
      [] OTHER -> IF c = RootContents THEN Len(t.slots)
                  ELSE IF t.slots[c \div 10] = "emptyGroup" THEN 0 ELSE 1

\* The kind of propertyGroup.property(i) of the contents c
VectorKind(t, c, i) ==
    CASE t.shape = "selfRef" -> IF i = 1 THEN "element" ELSE "group"
      [] t.shape = "chain" -> IF c < t.len THEN "group" ELSE "element"
      [] OTHER -> IF c = RootContents THEN t.slots[i] ELSE "element"

\* prop.property("ADBE Vectors Group") of the vector group in slot i of c
SubContents(t, c, i) ==
    CASE t.shape = "selfRef" -> RootContents
      [] t.shape = "chain" -> c + 1
      [] OTHER -> 10 * i

ShapeFrame(c, depth) == [contents |-> c, i |-> 0, depth |-> depth]
ShapeTop == shapeStack[Len(shapeStack)]
ShapePop == SubSeq(shapeStack, 1, Len(shapeStack) - 1)
NextSlot(s) == [s EXCEPT ![Len(s)].i = @ + 1]
ShapeItem(kind, depth) == [kind |-> kind, depth |-> depth]

\* Lines 1039-1056: extractShapeData, called with the frame rate the script
\* was loaded with, hands the root contents to extractShapeGroup.
InitShape ==
    /\ vectors \in VectorTrees
    /\ shapeStack = <<ShapeFrame(RootContents, 0)>>
    /\ shapeData = [status |-> "running", items |-> <<>>]
    /\ IdleExceptShape

\* The return of the innermost call: the caller stores the contents, reads
\* the group transform, pushes the item (lines 1002-1021) and goes on.
Returned(s, items, depth) ==
    IF Len(s) = 1
    THEN /\ shapeStack' = <<>>
         /\ shapeData' = [status |-> "returned", items |-> items]
    ELSE /\ shapeStack' = NextSlot(SubSeq(s, 1, Len(s) - 1))
         /\ shapeData' = [shapeData EXCEPT
                              !.items = Append(items, ShapeItem("group", depth - 1))]

\* Lines 971-979 and the end of the loop: the call has no slot left.
ShapeReturn ==
    /\ shapeData.status = "running"
    /\ \/ ShapeTop.i = 0 /\ VectorCount(vectors, ShapeTop.contents) <= 0
       \/ ShapeTop.i > VectorCount(vectors, ShapeTop.contents)
    /\ Returned(shapeStack, shapeData.items, ShapeTop.depth)
    /\ UNCHANGED <<vectors, exceptShape>>

\* Lines 971-979: the guards pass and the loop starts.
ShapeEnter ==
    /\ shapeData.status = "running"
    /\ ShapeTop.i = 0
    /\ VectorCount(vectors, ShapeTop.contents) > 0
    /\ shapeStack' = NextSlot(shapeStack)
    /\ UNCHANGED <<vectors, shapeData, exceptShape>>

InLoop ==
    /\ shapeData.status = "running"
    /\ ShapeTop.i >= 1
    /\ ShapeTop.i <= VectorCount(vectors, ShapeTop.contents)

SlotKind == VectorKind(vectors, ShapeTop.contents, ShapeTop.i)

\* Lines 982-990: the fetch throws or gives nothing.
ShapeSlotSkipped ==
    /\ InLoop
    /\ SlotKind \in {"fetchThrows", "null"}
    /\ shapeStack' = NextSlot(shapeStack)
    /\ UNCHANGED <<vectors, shapeData, exceptShape>>

\* Lines 992-996 stand outside every try block of the call: a throw leaves
\* the call.  The caller's catch of line 1006 stores empty contents and goes
\* on; the outermost call has no caller inside extractShapeData.
ShapeNameThrows ==
    /\ InLoop
    /\ SlotKind = "nameThrows"
    /\ IF Len(shapeStack) = 1
       THEN /\ shapeStack' = <<>>
            /\ shapeData' = [shapeData EXCEPT !.status = "threw"]
       ELSE Returned(shapeStack, shapeData.items, ShapeTop.depth)
    /\ UNCHANGED <<vectors, exceptShape>>

\* Lines 1022-1027: a shape element.
ShapeElement ==
    /\ InLoop
    /\ SlotKind = "element"
    /\ shapeStack' = NextSlot(shapeStack)
    /\ shapeData' = [shapeData EXCEPT
                         !.items = Append(@, ShapeItem("element", ShapeTop.depth))]
    /\ UNCHANGED <<vectors, exceptShape>>

\* Lines 998-1008 without a recursive call: the contents are missing or
\* their fetch throws.
ShapeGroupWithoutContents ==
    /\ InLoop
    /\ SlotKind \in {"groupNoContents", "groupThrows"}
    /\ shapeStack' = NextSlot(shapeStack)
    /\ shapeData' = [shapeData EXCEPT
                         !.items = Append(@, ShapeItem("group", ShapeTop.depth))]
    /\ UNCHANGED <<vectors, exceptShape>>

\* Line 1003: the recursive call.  Nothing but the host's stack limits it.
ShapeRecurse ==
    /\ InLoop
    /\ SlotKind \in {"group", "emptyGroup"}
    /\ Len(shapeStack) < MaxShapeStack
    /\ shapeStack' = Append(shapeStack,
           ShapeFrame(SubContents(vectors, ShapeTop.contents, ShapeTop.i),
                      ShapeTop.depth + 1))
    /\ UNCHANGED <<vectors, shapeData, exceptShape>>

\* Line 1003 with the host's stack exhausted: what the engine does then is
\* not the script's to decide.
ShapeOverrun ==
    /\ InLoop
    /\ SlotKind \in {"group", "emptyGroup"}
    /\ Len(shapeStack) >= MaxShapeStack
    /\ shapeData' = [shapeData EXCEPT !.status = "overrun"]
    /\ UNCHANGED <<vectors, shapeStack, exceptShape>>

NextShape ==
    \/ ShapeReturn
    \/ ShapeEnter
    \/ ShapeSlotSkipped
    \/ ShapeNameThrows
    \/ ShapeElement
    \/ ShapeGroupWithoutContents
    \/ ShapeRecurse
    \/ ShapeOverrun

SpecShape == InitShape /\ [][NextShape]_vars

(***************************************************************************)
(* figma-plugin: figma.ui.onmessage (code.ts lines 13-63) and the UI's     *)
(* Generate button (src/unnamed/part_000 lines 73-166)                     *)
(***************************************************************************)
MaxRequests == 1   \* most clicks on Generate that send a message

\* A layer and a composition that pass every test of the validator.
FullLayer ==
    [name |-> TRUE, type |-> TRUE, inPoint |-> TRUE, outPoint |-> TRUE,
     transform |-> TRUE, animationSummary |-> TRUE]
FullComposition(items) ==
    [kind |-> "object", name |-> TRUE, width |-> TRUE, height |-> TRUE,
     frameRate |-> TRUE, duration |-> TRUE,
     layers |-> [isArray |-> TRUE, items |-> items]]
ParsedNull == [kind |-> "null"]

\* What JSON.parse hands to the UI: null, a document without version,
\* complete documents with and without exportInfo, and a document whose
\* layer has no animationSummary.
ParsedTexts ==
    { ParsedNull,
      [kind |-> "object", version |-> FALSE, exportInfo |-> TRUE,
       composition |-> FullComposition(<<FullLayer>>)],
      [kind |-> "object", version |-> TRUE, exportInfo |-> TRUE,
       composition |-> FullComposition(<<FullLayer>>)],
      [kind |-> "object", version |-> TRUE, exportInfo |-> FALSE,
       composition |-> FullComposition(<<FullLayer>>)],
      [kind |-> "object", version |-> TRUE, exportInfo |-> TRUE,
       composition |-> FullComposition(<<[FullLayer EXCEPT !.animationSummary = FALSE]>>)] }

\* property-table.ts line 123 reads l.animationSummary.isAnimated of every
\* layer: the promise of generateSpecDocument rejects when a layer has none.
MustReject(doc) ==
    \E k \in 1..Len(doc.composition.layers.items) :
        ~doc.composition.layers.items[k].animationSummary

\* The return of code.ts line 26 left out.
NeverStops(verdict) == FALSE
\* code.ts lines 21-27: the handler ends after the error of a failed
\* validation.
StopsAfterInvalid(verdict) == ~verdict.valid

Post(type, id) == [type |-> type, id |-> id]
Posts(types, id) == [k \in 1..Len(types) |-> Post(types[k], id)]
Recorded(rs, id, types) == [rs EXCEPT ![id].posted = @ \o types, ![id].handled = TRUE]

InitPlugin ==
    /\ panel \in [parsedData : {ParsedNull}, disabled : BOOLEAN]
    /\ inbox = <<>>
    /\ outbox = <<>>
    /\ sandbox = [open |-> TRUE, awaiting |-> {}, generated |-> {}]
    /\ requests = <<>>
    /\ IdleExceptPlugin

\* processJson (part_000 lines 73-86); ok is FALSE for a text JSON.parse
\* rejects.  showPreview reads data.composition and throws on null.
ProcessJson(ok, parsed) ==
    /\ sandbox.open
    /\ panel' = IF ok /\ parsed.kind # "null"
                THEN [parsedData |-> parsed, disabled |-> FALSE]
                ELSE [parsedData |-> ParsedNull, disabled |-> TRUE]
    /\ UNCHANGED <<inbox, outbox, sandbox, requests, exceptPlugin>>

\* The click listener of generate-btn (part_000 lines 126-134); a disabled
\* button receives no click.
ClickGenerate ==
    /\ sandbox.open
    /\ ~panel.disabled
    /\ Len(requests) < MaxRequests
    /\ IF panel.parsedData.kind = "null"
       THEN UNCHANGED <<panel, inbox, requests>>
       ELSE /\ panel' = [panel EXCEPT !.disabled = TRUE]
            /\ inbox' = Append(inbox, [type |-> "generate", id |-> Len(requests) + 1])
            /\ requests' = Append(requests,
                   [data |-> panel.parsedData, posted |-> <<>>, handled |-> FALSE])
    /\ UNCHANGED <<outbox, sandbox, exceptPlugin>>

\* The click listener of cancel-btn (part_000 lines 136-138).
ClickCancel ==
    /\ sandbox.open
    /\ \A k \in 1..Len(inbox) : inbox[k].type # "cancel"
    /\ inbox' = Append(inbox, [type |-> "cancel", id |-> 0])
    /\ UNCHANGED <<panel, outbox, sandbox, requests, exceptPlugin>>

\* figma.ui.onmessage for 'generate', up to the await of line 37.
HandleGenerate(id) ==
    LET verdict == validateMotionSpec(requests[id].data)
        error == IF verdict.valid THEN <<>> ELSE <<"error">>
        warnings == IF Len(verdict.warnings) > 0 THEN <<"warnings">> ELSE <<>>
        stops == StopsAfterInvalid(verdict)
        types == IF stops THEN error ELSE error \o warnings
    IN  /\ requests' = Recorded(requests, id, types)
        /\ outbox' = outbox \o Posts(types, id)
        /\ sandbox' = IF stops THEN sandbox
                      ELSE [sandbox EXCEPT !.awaiting = @ \cup {id},
                                           !.generated = @ \cup {id}]

\* figma.ui.onmessage (code.ts lines 13-63) on the oldest message: 'cancel'
\* closes the plugin, and with it the UI and every pending continuation.
OnMessage ==
    /\ sandbox.open
    /\ inbox # <<>>
    /\ inbox' = Tail(inbox)
    /\ IF Head(inbox).type = "cancel"
       THEN /\ sandbox' = [sandbox EXCEPT !.open = FALSE]
            /\ UNCHANGED <<outbox, requests>>
       ELSE HandleGenerate(Head(inbox).id)
    /\ UNCHANGED <<panel, exceptPlugin>>

\* The promise awaited at line 37 settles: lines 39-42 post 'success', the
\* catch of lines 43-48 posts 'error'.
GenerateSettles(id, resolves) ==
    /\ sandbox.open
    /\ id \in sandbox.awaiting
    /\ resolves => ~MustReject(requests[id].data)
    /\ LET types == IF resolves THEN <<"success">> ELSE <<"error">>
       IN  /\ requests' = Recorded(requests, id, types)
           /\ outbox' = outbox \o Posts(types, id)
    /\ sandbox' = [sandbox EXCEPT !.awaiting = @ \ {id}]
    /\ UNCHANGED <<panel, inbox, exceptPlugin>>

\* window.onmessage of the UI (part_000 lines 141-160) with resetButton
\* (lines 162-166).
WindowOnMessage ==
    /\ sandbox.open
    /\ outbox # <<>>
    /\ outbox' = Tail(outbox)
    /\ panel' = IF Head(outbox).type \in {"success", "error"}
                THEN [panel EXCEPT !.disabled = FALSE]
                ELSE panel
    /\ UNCHANGED <<inbox, sandbox, requests, exceptPlugin>>

RequestIds == 1..MaxRequests

NextPlugin ==
    \/ \E ok \in BOOLEAN, parsed \in ParsedTexts : ProcessJson(ok, parsed)
    \/ ClickGenerate
    \/ ClickCancel
    \/ OnMessage
    \/ \E id \in RequestIds, resolves \in BOOLEAN : GenerateSettles(id, resolves)
    \/ WindowOnMessage

\* Messages are delivered and the awaited promise settles.
SpecPlugin ==
    /\ InitPlugin
    /\ [][NextPlugin]_vars
    /\ WF_vars(OnMessage)
    /\ WF_vars(WindowOnMessage)
    /\ \A id \in RequestIds : WF_vars(\E resolves \in BOOLEAN : GenerateSettles(id, resolves))

(***************************************************************************)
(* Claims about walkPropertyGroup                                          *)
(***************************************************************************)

\* The leaves below group n that a walk can reach: the children that are
\* fetched without failure and read as PropertyType.PROPERTY, and those of
\* every fetched child group whose numProperties is readable and positive.
RECURSIVE ReachableLeaves(_, _, _)
ReachableLeaves(t, n, fuel) ==
    IF NumProperties(t, n) <= 0 THEN {}
    ELSE UNION { LET c == PropertyAt(t, n, i) IN
                   IF c \in {Throws, NullSlot} THEN {}
                   ELSE IF PropertyType(t, c) = PT_PROPERTY THEN {c}
                   ELSE IF fuel = 0 THEN {}
                   ELSE ReachableLeaves(t, c, fuel - 1)
                 : i \in 1..NumProperties(t, n) }

\* A finite tree no deeper than the depth bound.
TreeWithinBound(t) ==
    /\ t.shape # "selfRef"
    /\ t.shape \in {"chain", "throwingChain"} =>
          t.len <= PROPERTY_WALK_MAX_DEPTH + 1

VisitCount(n) == Cardinality({ k \in 1..Len(visits) : visits[k].node = n })

\* C3: on a finite tree no deeper than the bound, whatever the callback does
\* (it may throw) and whatever other accessors throw, a finished walk has
\* invoked the callback exactly once for every reachable leaf.
C3_EveryLeafExactlyOnce ==
    (WalkDone /\ TreeWithinBound(tree)) =>
        \A n \in ReachableLeaves(tree, Root, MaxChain + 1) : VisitCount(n) = 1

\* C4: walkPropertyGroup terminates on every input, the self-referential
\* group and the chain deeper than the bound included: the recursion never
\* goes deeper than the bound allows and the walk reaches its return.
C4_WalkTerminates ==
    /\ [](Len(stack) <= PROPERTY_WALK_MAX_DEPTH + 2)
    /\ <>WalkDone

\* C4 witness: the walk of the self-referential group has returned, after
\* reporting the leaf once per level down to the bound.
C4_Witness ==
    /\ WalkDone
    /\ tree.shape = "selfRef"
    /\ Len(visits) = PROPERTY_WALK_MAX_DEPTH + 1

\* C4, second case: the walk of a chain deeper than the bound has returned
\* without reaching the leaf at its end.
C4_DeepChainReturned ==
    /\ WalkDone
    /\ tree.shape = "chain" /\ tree.len > PROPERTY_WALK_MAX_DEPTH + 1
    /\ visits = <<>>

\* C20: the callback is never invoked with a depth above
\* PROPERTY_WALK_MAX_DEPTH, and on a chain of nested groups no node of a
\* subtree rooted deeper than the bound (node k sits k - 1 levels below the
\* root) is ever reported.
C20_NoVisitBeyondBound ==
    \A k \in 1..Len(visits) :
        /\ visits[k].depth <= PROPERTY_WALK_MAX_DEPTH
        /\ tree.shape \in {"chain", "throwingChain"} =>
              visits[k].node - 1 <= PROPERTY_WALK_MAX_DEPTH + 1

\* C20 witness: the walk of a chain that descends through the catch block
\* and is deeper than the bound has returned without reporting anything.
C20_Witness ==
    /\ WalkDone
    /\ tree.shape = "throwingChain"
    /\ tree.len > PROPERTY_WALK_MAX_DEPTH + 1
    /\ visits = <<>>

\* C20, the boundary: the leaf below the group at depth 20 is reported, with
\* depth 20.
C20_DeepestVisit ==
    /\ WalkDone
    /\ tree.shape = "throwingChain"
    /\ tree.len = PROPERTY_WALK_MAX_DEPTH + 1
    /\ Len(visits) = 1 /\ visits[1].depth = PROPERTY_WALK_MAX_DEPTH

\* The children of the root of a fan tree that were fetched.
FetchedSlots == { j \in 1..Len(tree.slots) : tree.slots[j] \notin {"fetchThrows", "null"} }

\* The node-count probe of child n succeeds and returns a positive count.
ProbePositive(n) ==
    /\ NumProperties(tree, n) # Throws
    /\ NumProperties(tree, n) # Undefined
    /\ NumProperties(tree, n) > 0

\* C21: a fetched child is recursed into and not passed to the callback
\* exactly when its numProperties probe succeeds with a positive count;
\* otherwise (the probe throws or the count is not positive) it is passed to
\* the callback as a leaf.
C21_GroupIffProbePositive ==
    (WalkDone /\ tree.shape = "fan") =>
        \A j \in FetchedSlots :
            IF ProbePositive(10 * j)
            THEN VisitCount(10 * j) = 0 /\ VisitCount(10 * j + 1) >= 1
            ELSE VisitCount(10 * j) >= 1

\* The slots of the root of a fan tree after a slot whose fetch failed.
SlotsAfterFailure ==
    { j \in 1..Len(tree.slots) :
        \E i \in 1..(j - 1) : tree.slots[i] \in {"fetchThrows", "null"} }

\* C22: a failed fetch of slot i skips that slot only: nothing of the slot is
\* reported, every later sibling slot is still processed (its leaf, or the
\* leaf of its group, is reported), and the walk goes on to its return.
C22_FetchFailureSkipsOneSlot ==
    (WalkDone /\ tree.shape = "fan") =>
        /\ \A j \in 1..Len(tree.slots) :
              tree.slots[j] \in {"fetchThrows", "null"} =>
                  VisitCount(10 * j) = 0 /\ VisitCount(10 * j + 1) = 0
        /\ \A j \in SlotsAfterFailure :
              /\ tree.slots[j] \in {"leaf", "leafTypeThrows"} => VisitCount(10 * j) >= 1
              /\ tree.slots[j] \in {"group", "groupTypeThrows"} => VisitCount(10 * j + 1) >= 1

\* C22 witness: the fetch of slot 1 threw and the leaf in slot 2 was
\* reported.
C22_Witness ==
    /\ WalkDone
    /\ tree.shape = "fan" /\ Len(tree.slots) = 2
    /\ tree.slots[1] = "fetchThrows" /\ tree.slots[2] = "leaf"
    /\ VisitCount(20) = 1

(***************************************************************************)
(* Claims about the easing converter                                       *)
(***************************************************************************)

ValueAware == {"convertEasingWithValues", "convertEasingWithValuesBest"}

\* C8: both value-aware converters return x1 and x2 within [0, 1] whatever
\* the (finite) inputs, on the degenerate and on the computed path.
C8_XWithinUnitInterval ==
    bezier.fn \in ValueAware =>
        /\ bezier.result.x1 \in 0..SCALE
        /\ bezier.result.x2 \in 0..SCALE

\* C8 witness: the computed path was taken with an outgoing influence above
\* 100 percent and a negative incoming influence, and x1, x2 were clamped.
C8_Witness ==
    /\ bezier.fn = "convertEasingWithValues"
    /\ bezier.result.path = "computed"
    /\ segment.outEase[1].influence > ONE
    /\ segment.inEaseNext[1].influence < 0
    /\ bezier.result.x1 = SCALE
    /\ bezier.result.x2 = SCALE

\* Every handle of the segment is the Easy-Ease handle: speed 0, influence
\* 33.333 percent.
EasyEaseHandles(seg) ==
    /\ \A d \in 1..Len(seg.outEase) : seg.outEase[d] = Ease(0, 33333)
    /\ \A d \in 1..Len(seg.inEaseNext) : seg.inEaseNext[d] = Ease(0, 33333)

\* The start and end value are numbers, or arrays, that differ.
NonzeroDelta(seg) ==
    /\ seg.startValue.kind \in {"number", "array"}
    /\ seg.endValue.kind = seg.startValue.kind
    /\ seg.startValue.dims # seg.endValue.dims

IsEasyEase(b) == b.x1 = 3333 /\ b.y1 = 0 /\ b.x2 = 6667 /\ b.y2 = SCALE

MeasuredChange(fn, seg) ==
    IF fn = "convertEasingWithValues"
    THEN FirstDimension(seg.startValue, seg.endValue).valueChange
    ELSE findBestDimension(seg.startValue, seg.endValue).valueChange

DominantChange(seg) == findBestDimension(seg.startValue, seg.endValue).valueChange

\* C24: both value-aware converters return the identity Bezier (0, 0, 1, 1)
\* whenever the absolute change on the dominant dimension or the duration is
\* below 0.0001; on every other input the division, where one is made, is by
\* a linearSpeed = |valueChange / duration| that is strictly positive.
C24_IdentityBelowEpsilon ==
    bezier.fn \in ValueAware =>
        /\ (Abs(DominantChange(segment)) < EPSILON \/ segment.duration < EPSILON)
              => bezier.result = IdentityBezier
        /\ bezier.result.path \in {"degenerate", "computed"}
        /\ bezier.result.path = "computed" =>
              /\ Abs(MeasuredChange(bezier.fn, segment)) > 0
              /\ segment.duration > 0

\* C24 witness: a two-dimensional segment whose larger change is below
\* epsilon, over a duration above it, was converted to the identity.
C24_Witness ==
    /\ bezier.fn = "convertEasingWithValuesBest"
    /\ segment.startValue.kind = "array"
    /\ DominantChange(segment) # 0
    /\ Abs(DominantChange(segment)) < EPSILON
    /\ segment.duration >= EPSILON
    /\ bezier.result = IdentityBezier

\* C24, the other side of the guard: change and duration both exactly
\* epsilon, and the curve was computed.
C24_ComputedAtEpsilon ==
    /\ bezier.fn = "convertEasingWithValues"
    /\ Abs(DominantChange(segment)) = EPSILON
    /\ segment.duration = EPSILON
    /\ bezier.result.path = "computed"

\* C25: the simplified converter returns y1 = 0 for a zero outgoing speed and
\* y1 = the x1 it returns otherwise, y2 = 1 for a zero incoming speed and
\* y2 = the x2 it returns otherwise, whatever the influences.
C25_YFollowsReturnedX ==
    bezier.fn = "convertEasingToCubicBezier" =>
        /\ bezier.result.y1 =
              (IF segment.outEase[1].speed = 0 THEN 0 ELSE bezier.result.x1)
        /\ bezier.result.y2 =
              (IF segment.inEaseNext[1].speed = 0 THEN SCALE ELSE bezier.result.x2)

(***************************************************************************)
(* Claims about the keyframe extractor                                     *)
(***************************************************************************)

\* C1: a returned descriptor with isAnimated true has keyframes, at least
\* one, and no staticValue; with isAnimated false it has a staticValue and no
\* keyframes.
C1_AnimatedIffKeyframes ==
    descriptor.status = "returned" =>
        /\ descriptor.isAnimated =>
              /\ descriptor.hasKeyframes
              /\ Len(descriptor.keyframes) >= 1
              /\ ~descriptor.hasStaticValue
        /\ ~descriptor.isAnimated =>
              /\ descriptor.hasStaticValue
              /\ ~descriptor.hasKeyframes

\* C2: the index fields of the returned keyframe list are 1..N in order.
C2_IndexContiguous ==
    (descriptor.status = "returned" /\ descriptor.hasKeyframes) =>
        \A k \in 1..Len(descriptor.keyframes) : descriptor.keyframes[k].index = k

\* The first dimension of a two-dimensional segment is constant and the second
\* changes by at least epsilon.
SecondDimensionOnly(startValue, endValue) ==
    /\ startValue.kind = "array" /\ endValue.kind = "array"
    /\ Len(startValue.dims) = 2 /\ Len(endValue.dims) = 2
    /\ startValue.dims[1] = endValue.dims[1]
    /\ Abs(endValue.dims[2] - startValue.dims[2]) >= EPSILON

\* C9: for a segment whose first dimension is constant and whose second
\* changes, the Bezier the keyframe extractor stores is the one computed from
\* dimension 1 and not the identity fallback.
C9_DominantDimension ==
    descriptor.status = "returned" =>
        \A k \in 1..Len(descriptor.keyframes) :
            LET kf == descriptor.keyframes[k]
                p == property.host
            IN  (/\ kf.index < p.numKeys
                 /\ kf.cubicBezier.path \in {"degenerate", "computed"}
                 /\ SecondDimensionOnly(kf.value, KeyValue(p, kf.index + 1)))
                    => /\ kf.cubicBezier.path = "computed"
                       /\ kf.cubicBezier =
                            convertEasingWithValuesBest(
                                KeyEase(p, kf.index), KeyEase(p, kf.index + 1),
                                KeyTime(p, kf.index + 1) - KeyTime(p, kf.index),
                                kf.value, KeyValue(p, kf.index + 1))

\* The keyframes of the returned list recorded for host keyframe i.
KeyframesOf(i) ==
    { k \in 1..Len(descriptor.keyframes) : descriptor.keyframes[k].index = i }

\* C23: for every host keyframe whose time can be read, the returned list
\* holds one keyframe with that time and, the value being readable, that
\* value, whichever of the other reads of this or of the next keyframe throw.
C23_KeyframeKeptWhenFacetFails ==
    (descriptor.status = "returned" /\ descriptor.isAnimated) =>
        \A i \in 1..property.host.numKeys :
            "time" \notin property.host.fails[i] =>
                /\ Cardinality(KeyframesOf(i)) = 1
                /\ \A k \in KeyframesOf(i) :
                      /\ descriptor.keyframes[k].time = KeyTime(property.host, i)
                      /\ "value" \notin property.host.fails[i] =>
                            descriptor.keyframes[k].value
                                = normalizeKeyValue(KeyValue(property.host, i))

\* C23 witness: every read of the first keyframe but those of its time and
\* value threw, and both keyframes were returned, the first without its
\* interpolation type and easing.
C23_Witness ==
    /\ descriptor.status = "returned" /\ descriptor.isAnimated
    /\ property.host.numKeys = 2
    /\ property.host.fails[1] = Facets \ {"time", "value"}
    /\ Len(descriptor.keyframes) = 2
    /\ descriptor.keyframes[1].temporalEasing = "null"
    /\ descriptor.keyframes[1].interpolationType = "null"
    /\ descriptor.keyframes[1].value = normalizeKeyValue(KeyValue(property.host, 1))

(***************************************************************************)
(* Claims about the extraction script                                      *)
(***************************************************************************)

\* C5: with an active composition, no throwing host read aborts the
\* extraction: the catch block of main is never entered.
C5_NeverAborted ==
    pc \notin {"catch", "failed"}

ExtractionWork ==
    {"extractComposition", "extractLayer", "jsonStringify", "saveJsonFile",
     "alert: exported"}

\* C6: when the active item is not a composition, no extraction, no
\* serialization and no save happen, and once the script has left its first
\* check it has returned after alerting the caller.
C6_AbortsBeforeWork ==
    host.activeItem # "comp" =>
        /\ \A k \in 1..Len(log) : log[k] \notin ExtractionWork
        /\ ~document.assembled
        /\ layers = <<>>
        /\ pc # "start" =>
              (pc = "returned" /\ log = <<"alert: select a composition">>)

\* C6 witness: the script has returned on a footage item after its alert.
C6_Witness ==
    /\ host.activeItem = "footage"
    /\ pc = "returned"
    /\ log = <<"alert: select a composition">>

\* The host slots 1..n whose layer the options keep, in increasing order.
RECURSIVE KeptSlots(_, _, _)
KeptSlots(hostLayers, includeHidden, i) ==
    IF i > Len(hostLayers) THEN <<>>
    ELSE IF includeHidden \/ hostLayers[i].enabled
    THEN <<i>> \o KeptSlots(hostLayers, includeHidden, i + 1)
    ELSE KeptSlots(hostLayers, includeHidden, i + 1)

RECURSIVE TwoKeyframeSlots(_, _)
TwoKeyframeSlots(transform, k) ==
    IF k > Len(ScanOrder) THEN <<>>
    ELSE IF /\ ScanOrder[k] \in DOMAIN transform
            /\ Len(transform[ScanOrder[k]].keyframes) >= 2
    THEN <<ScanOrder[k]>> \o TwoKeyframeSlots(transform, k + 1)
    ELSE TwoKeyframeSlots(transform, k + 1)

C12_AnimatedLayer ==
    /\ layerData.status = "returned"
    /\ layerData.data.animationSummary.isAnimated
    /\ Len(layerData.data.animationSummary.properties) = 2

\* C26: computeAnimationSummary returns a summary for every extracted
\* layerData, one without a transform, with an empty transform or with
\* null slots included; it never throws, and the layerData it was handed
\* (every property and keyframe in it) and everything of the host are as
\* they were before the call.
C26_PureReduction ==
    /\ [](reduced # NotReduced => reduced.status = "returned")
    /\ [](reduced.status = "returned" /\ ~given.hasTransform
              => reduced.summary = EmptySummary)
    /\ [][given' = given /\ call' = call /\ host' = host]_vars

\* C26 witness: a transform whose position slot is null and whose rotationX
\* has keyframes was reduced to a summary of one property.
C26_Witness ==
    /\ reduced.status = "returned"
    /\ given.hasTransform
    /\ "position" \in DOMAIN given.transform
    /\ given.transform["position"].status = "null"
    /\ reduced.summary.animatedPropertyCount = 1
    /\ reduced.summary.properties[1].name = "rotationX"

\* C26, second case: layerData without a transform.
C26_NoTransform ==
    /\ reduced.status = "returned"
    /\ ~given.hasTransform

(***************************************************************************)
(* Claims about extractLayer                                               *)
(***************************************************************************)

\* The type-specific fields that hold a value, and the type each belongs to.
Populated(payload) == { f \in DOMAIN payload : payload[f] = "value" }

FieldMatches(f, type) ==
    \/ f = "shapeData" /\ type = "shape"
    \/ f = "textData" /\ type = "text"
    \/ f = "precompData" /\ type = "precomp"
    \/ f = "solidData" /\ type = "solid"
    \/ f = "cameraData" /\ type = "camera"
    \/ f = "lightData" /\ type = "light"
    \/ f \in {"sourceFile", "sourceFileName"} /\ type \in {"image", "video"}

\* C13: a returned layer descriptor has exactly one type-specific field
\* populated, the one of its type, whichever of the ten types it has.
C13_ExactlyOnePayload ==
    layerData.status = "returned" =>
        /\ Cardinality(Populated(layerData.data.payload)) = 1
        /\ \A f \in Populated(layerData.data.payload) :
              FieldMatches(f, layerData.data.type)

\* C15: the descriptor of a layer depends on the layer and on the frameRate
\* of its call alone: it is the descriptor the same call yields as the first
\* call of the script, whatever was extracted before.
C15_IndependentOfEarlierCalls ==
    layerData.status = "returned" =>
        layerData.data = extractLayer(call.layer, call.frameRate, 30).data

\* The levels of nested composition content a precompData holds.
RECURSIVE ExpandedLevels(_)
ExpandedLevels(precompData) ==
    IF "layers" \notin DOMAIN precompData THEN 0
    ELSE 1 + (IF precompData.layers = <<>> THEN 0
              ELSE ExpandedLevels(precompData.layers[1].precompData))

\* C17: a precomp layer is expanded recursively, as deep as its nesting goes
\* and never deeper than maxPrecompDepth.
C17_PrecompExpandedWithinBound ==
    (layerData.status = "returned" /\ layerData.data.type = "precomp") =>
        ExpandedLevels(layerData.data.precompData)
            = Min(call.layer.nesting, call.maxPrecompDepth)

(***************************************************************************)
(* Claims about validateMotionSpec                                         *)
(***************************************************************************)

\* composition.name, width, height, frameRate or duration is missing, or
\* composition.layers is not an array.
RequiredOfCompositionMissing(comp) ==
    \/ ~comp.name
    \/ ~comp.width
    \/ ~comp.height
    \/ ~comp.frameRate
    \/ ~comp.duration
    \/ ~comp.layers.isArray

\* One of the required fields of the document is missing: version,
\* or a required field of the composition (a composition that is not an
\* object has none of them).
RequiredMissing(doc) ==
    \/ doc.kind # "object"
    \/ ~doc.version
    \/ doc.composition.kind # "object"
    \/ RequiredOfCompositionMissing(doc.composition)

\* C14: the result is invalid exactly when a required field is missing; no
\* field of a layer makes the document invalid.
C14_InvalidIffRequiredMissing ==
    validation # NotValidated =>
        (~validation.valid <=> RequiredMissing(data))

(***************************************************************************)
(* Claims about the value normalizer                                       *)
(***************************************************************************)

\* A number, a list of numbers, a string, a boolean or null.
PortableShape(v) ==
    /\ v.kind \in {"number", "array", "string", "boolean", "null"}
    /\ v.kind = "number" => Len(v.dims) = 1 /\ v.dims[1] \in Int
    /\ v.kind = "array" => \A i \in 1..Len(v.dims) : v.dims[i] \in Int

\* The value could not be read (getPropertyValue only) or not be coerced.
Unreadable == normalized.fn = "getPropertyValue" /\ ~reading.valueOk
Uncoercible == reading.motion.a.kind = "unstringable"

\* C16: the normalizer never raises, returns a number, a list of numbers, a
\* string, a boolean or null, and returns null only when the value could not
\* be read or coerced; what it returns for a number, array, string or
\* boolean it could read is that value.
C16_PortableOrNull ==
    normalized # NotNormalized =>
        /\ PortableShape(normalized.value)
        /\ normalized.value = NullValue => Unreadable \/ Uncoercible
        /\ (~Unreadable /\ reading.motion.a.kind \in {"number", "array", "string", "boolean"})
               => normalized.value = reading.motion.a

\* A value that cannot be coerced has been normalized to null, and an
\* unreadable property as well.
C16_Witness ==
    /\ normalized.fn = "normalizeKeyValue"
    /\ Uncoercible
    /\ normalized.value = NullValue

C16_UnreadableIsNull ==
    /\ Unreadable
    /\ normalized.value = NullValue

C16_ArrayCopied ==
    /\ normalized.fn = "getPropertyValue"
    /\ normalized.value.kind = "array"
    /\ Len(normalized.value.dims) = MaxDims

(***************************************************************************)
(* Claims about jsonStringify                                              *)
(***************************************************************************)

\* The text of a value met below the objects of path: the sentinel where the
\* value is one of the objects of path, its own text otherwise.
RECURSIVE TextOf(_, _)
TextOf(value, path) ==
    IF value = NumberValue THEN <<"0">>
    ELSE IF value \in path THEN <<"\"[Circular]\"">>
    ELSE IF graph.children[value] = <<>>
    THEN (IF IsArray(value) THEN <<"[]">> ELSE <<"{}">>)
    ELSE Closed(value, [i \in 1..Len(graph.children[value]) |->
                          Item(value, i, TextOf(graph.children[value][i],
                                                path \cup {value}))])

Serialized == json # NotSerialized

\* The objects of the call chain, each once.
SeenIsCallChain ==
    /\ Len(seen) = Len(frames)
    /\ \A i \in 1..Len(seen) : seen[i] = frames[i].node
    /\ \A i, j \in 1..Len(seen) : i # j => seen[i] # seen[j]

\* C18: jsonStringify returns for every graph, cyclic ones included; its
\* text has the "[Circular]" sentinel exactly where a value refers back to an
\* object it is inside of, and no object is ever entered while it is open.
C18_TerminatesWithSentinel ==
    /\ <>Serialized
    /\ [](Serialized => json = TextOf(graph.root, {}))
    /\ []SeenIsCallChain

\* A graph with a reference cycle through two objects has been serialized.
C18_Witness ==
    /\ Serialized
    /\ \E i \in 1..Len(json) : json[i] = "\"[Circular]\""
    /\ graph.root \in Nodes
    /\ \E n \in Nodes : /\ n # graph.root
                        /\ IsSeen(graph.children[graph.root], n)
                        /\ IsSeen(graph.children[n], graph.root)

Sentinel == <<"\"[Circular]\"">>

\* The objects a value of the graph refers to, and those met below it within
\* fuel references.
Refs(n) == { graph.children[n][k] : k \in 1..Len(graph.children[n]) } \ {NumberValue}
RECURSIVE Below(_, _)
Below(n, fuel) ==
    IF fuel = 0 THEN {}
    ELSE Refs(n) \cup UNION { Below(m, fuel - 1) : m \in Refs(n) }

\* No object of the graph is met below itself; an object may still be met
\* at several places.
Acyclic ==
    \A n \in DOMAIN graph.children :
        n \notin Below(n, Cardinality(DOMAIN graph.children))
SharesAnObject ==
    \E n, m \in DOMAIN graph.children :
        /\ n # m
        /\ Refs(n) \cap Refs(m) # {}
        /\ {n, m} \subseteq {graph.root} \cup Below(graph.root, Cardinality(DOMAIN graph.children))

\* The text of a value written out in full wherever it is met.
RECURSIVE FullText(_)
FullText(value) ==
    IF value = NumberValue THEN <<"0">>
    ELSE IF graph.children[value] = <<>>
    THEN (IF IsArray(value) THEN <<"[]">> ELSE <<"{}">>)
    ELSE Closed(value, [i \in 1..Len(graph.children[value]) |->
                          Item(value, i, FullText(graph.children[value][i]))])

\* The item k of the open call j is the sentinel.
SentinelAt(j, k) == frames[j].items[k] = Item(frames[j].node, k, Sentinel)

\* C30: serialize writes the sentinel only for a value that is an object of
\* an open call, an ancestor of the position; an object met at several
\* sibling positions is written out in full at each, so that the text of a
\* graph without a cycle, such as a document of the extractor, has no
\* sentinel.
C30_SentinelOnlyForAncestors ==
    /\ \A j \in 1..Len(frames) : \A k \in 1..Len(frames[j].items) :
           SentinelAt(j, k) =>
               \E m \in 1..j : frames[m].node = graph.children[frames[j].node][k]
    /\ Serialized /\ Acyclic =>
           /\ json = FullText(graph.root)
           /\ \A i \in 1..Len(json) : <<json[i]>> # Sentinel

\* The layer whose keyframe and summary entry share a value array and a
\* cubicBezier object has been serialized.
C30_Witness ==
    /\ Serialized
    /\ graph = SharedDocument
    /\ SharesAnObject
    /\ Acyclic

\* A sentinel has been written for a reference to an open object.
C30_SentinelWritten ==
    \E j \in 1..Len(frames) : \E k \in 1..Len(frames[j].items) : SentinelAt(j, k)

(***************************************************************************)
(* Claims about bezierYForX                                                *)
(***************************************************************************)

ReturnedOnIdentity == newton.at = "returned" /\ newton.curve = IdentityCurve

\* C19 as stated: on the identity curve bezierYForX returns targetX itself,
\* without a Newton step.
C19_ReturnsT ==
    ReturnedOnIdentity => newton.y = newton.targetX /\ newton.i = 0

\* C19, amended: on the identity curve bezierYForX returns a value less than
\* epsilon away from targetX, found by the convergence test of line 51.
C19_ReturnsTWithinEpsilon ==
    ReturnedOnIdentity =>
        /\ Abs(newton.y - newton.targetX) < NewtonEpsilon
        /\ newton.i < NewtonIterations

\* On the identity curve Newton steps were taken and the value returned is
\* not targetX.
C19_Witness ==
    /\ ReturnedOnIdentity
    /\ newton.i > 0
    /\ newton.y # newton.targetX

(***************************************************************************)
(* Claims about detectLayerType                                            *)
(***************************************************************************)
\* The structural markers of the host layer, read off the layer itself.
Marked(kind) ==
    aeLayer.matchName = KindMatchName[kind] \/ aeLayer.class = KindClass[kind]
EarlierMarked(kinds) == \E k \in kinds : Marked(k)
Flagged == aeLayer.adjustmentLayer = "true"
FootageFile ==
    /\ aeLayer.source.kind = "FootageItem"
    /\ aeLayer.source.mainSource.kind = "FileSource"
    /\ aeLayer.source.mainSource.file = "exists"
    /\ aeLayer.source.mainSource.name # <<"undefined">>
EndsWithImageExtension(name) ==
    \E ext \in IMAGE_EXTENSIONS : \E k \in 0..Len(name) :
        toLowerCase(name) = SubSeq(toLowerCase(name), 1, k) \o ext
Unmarked ==
    /\ ~EarlierMarked({"shape", "text", "camera", "light"})
    /\ ~Flagged

\* C27: detectLayerType never throws and returns one of the ten types,
\* decided by the first marker that matches in the order shape, text,
\* camera, light, adjustment flag, source (precomp, solid, then image or
\* video by the file name's extension); a layer matching no marker is
\* "null".
C27_DetectsByPriority ==
    detected # NotDetected =>
        /\ detected.status = "returned"
        /\ detected.type \in LayerTypes
        /\ Marked("shape") => detected.type = "shape"
        /\ Marked("text") /\ ~EarlierMarked({"shape"}) => detected.type = "text"
        /\ Marked("camera") /\ ~EarlierMarked({"shape", "text"}) =>
               detected.type = "camera"
        /\ Marked("light") /\ ~EarlierMarked({"shape", "text", "camera"}) =>
               detected.type = "light"
        /\ Flagged /\ ~EarlierMarked({"shape", "text", "camera", "light"}) =>
               detected.type = "adjustment"
        /\ Unmarked /\ aeLayer.source.kind = "CompItem" =>
               detected.type = "precomp"
        /\ Unmarked /\ aeLayer.source.kind = "FootageItem" =>
               detected.type \in {"solid", "image", "video"}
        /\ Unmarked /\ aeLayer.source.kind = "FootageItem"
              /\ aeLayer.source.mainSource.kind = "SolidSource" =>
               detected.type = "solid"
        /\ Unmarked /\ FootageFile =>
               detected.type =
                   IF EndsWithImageExtension(aeLayer.source.mainSource.name)
                   THEN "image" ELSE "video"
        /\ Unmarked /\ aeLayer.source.kind \in {"none", "throws", "FolderItem"} =>
               detected.type = "null"

\* A shape layer that carries the adjustment flag has been classified.
C27_Witness ==
    /\ detected # NotDetected
    /\ Marked("shape")
    /\ Flagged
    /\ detected.type = "shape"

\* Footage whose file name cannot be read as a string has been classified.
C27_UnreadableName ==
    /\ detected # NotDetected
    /\ Unmarked
    /\ aeLayer.source.kind = "FootageItem"
    /\ aeLayer.source.mainSource.kind = "FileSource"
    /\ aeLayer.source.mainSource.file = "exists"
    /\ aeLayer.source.mainSource.name = <<"undefined">>

\* An upper-case image extension has been recognised.
C27_UpperCaseImage ==
    /\ detected # NotDetected
    /\ Unmarked
    /\ FootageFile
    /\ aeLayer.source.mainSource.name = <<"l", "o", "g", "o", ".", "P", "N", "G">>
    /\ detected.type = "image"

(***************************************************************************)
(* Claims about extractShapeData                                           *)
(***************************************************************************)
\* C28: no call of extractShapeGroup is open at a depth beyond
\* PROPERTY_WALK_MAX_DEPTH, and the extraction of every tree, a vector group
\* holding itself included, comes to an end without exhausting the host.
C28_ShapeDepthBounded ==
    /\ \A k \in 1..Len(shapeStack) :
           shapeStack[k].depth <= PROPERTY_WALK_MAX_DEPTH
    /\ shapeData.status # "overrun"

(***************************************************************************)
(* Claims about figma.ui.onmessage and the Generate button                 *)
(***************************************************************************)
Sent(id) == Len(requests) >= id
Handled(id) == Sent(id) /\ requests[id].handled
Terminal(type) == type \in {"success", "error"}
Count(types, Wanted(_)) == Cardinality({ k \in 1..Len(types) : Wanted(types[k]) })
IsWarnings(type) == type = "warnings"
TerminalPosted(id) == Sent(id) /\ Count(requests[id].posted, Terminal) = 1
\* The UI has handled the terminal message of the request.
Answered(id) ==
    /\ TerminalPosted(id)
    /\ \A k \in 1..Len(outbox) : outbox[k].id = id => ~Terminal(outbox[k].type)
Reenabled(id) == Answered(id) /\ ~panel.disabled

\* What has been posted for a request so far is in order.
PostedInOrder(id) ==
    LET posted == requests[id].posted
    IN  /\ Count(posted, Terminal) <= 1
        /\ Count(posted, IsWarnings) <= 1
        /\ \A k \in 1..Len(posted) : Terminal(posted[k]) => k = Len(posted)
        /\ ~validateMotionSpec(requests[id].data).valid /\ requests[id].handled =>
               /\ posted = <<"error">>
               /\ id \notin sandbox.generated

\* C29 as amended: of every handled generate message at most one terminal
\* message is posted, after at most one 'warnings'; a failed validation
\* posts 'error' and never calls generateSpecDocument; and unless a
\* 'cancel' closes the plugin, the terminal message is posted and the
\* Generate button enabled again.
C29_OneTerminalUnlessClosed ==
    /\ [](\A id \in RequestIds : Sent(id) => PostedInOrder(id))
    /\ \A id \in RequestIds : Handled(id) ~> (TerminalPosted(id) \/ ~sandbox.open)
    /\ \A id \in RequestIds :
           (Sent(id) /\ ~Answered(id)) ~> (Reenabled(id) \/ ~sandbox.open)

\* C29: of every handled generate message exactly one terminal message is
\* posted, after at most one 'warnings'; a failed validation posts 'error'
\* and never calls generateSpecDocument; the Generate button is enabled
\* again after every request.
C29_OneTerminalMessage ==
    /\ [](\A id \in RequestIds : Sent(id) => PostedInOrder(id))
    /\ \A id \in RequestIds : Handled(id) ~> TerminalPosted(id)
    /\ \A id \in RequestIds : (Handled(id) /\ ~Answered(id)) ~> Reenabled(id)

\* A request was answered by 'warnings' and 'success', and the UI has
\* enabled the button again.
C29_Witness ==
    /\ sandbox.open
    /\ Sent(1)
    /\ requests[1].posted = <<"warnings", "success">>
    /\ Reenabled(1)

\* A failed validation has been answered.
C29_InvalidAnswered ==
    /\ Handled(1)
    /\ ~validateMotionSpec(requests[1].data).valid
    /\ requests[1].posted = <<"error">>

====
